---- MODULE Spec2Model ----
(***************************************************************************)
(* Model of the publishing engine of publish_bot.py: the two asyncio       *)
(* queues (vip_queue, msg_queue), the worker_engine coroutine, the sticker *)
(* helper send_smart_sticker, and the operator handlers that feed and      *)
(* steer them (message_processor, callback_router, restore_handler).       *)
(*                                                                         *)
(* All coroutines share one asyncio event loop.  A coroutine runs without  *)
(* interleaving until it reaches an await that really suspends; the        *)
(* engine's position pc is therefore either a suspension point (a member   *)
(* of Suspended) or a position inside a running segment, and the operator  *)
(* handlers and the clock are enabled only while the engine is suspended   *)
(* (or has terminated).                                                    *)
(***************************************************************************)
EXTENDS Integers, Sequences, FiniteSets, TLC

VARIABLES
    settings,                \* settings table of the database (key -> value)
    sticker_sets,            \* sticker_sets table of the database
    vip_queue,               \* asyncio.Queue: pending priority messages
    msg_queue,               \* asyncio.Queue: pending normal messages
    vip_unfinished,          \* vip_queue._unfinished_tasks
    msg_unfinished,          \* msg_queue._unfinished_tasks
    pc,                      \* position of worker_engine
    message,                 \* worker_engine local: the dequeued message
    is_vip,                  \* worker_engine local: lane it was taken from
    last_processed_album_id, \* worker_engine local: album cursor
    target_id,               \* worker_engine local: destination of the cycle
    sleep_left,              \* time left of the asyncio.sleep the engine is in
    next_id,                 \* id the next accepted message will carry
    deq_log,                 \* history: the dequeues, in order
    outcome,                 \* history: terminal outcome of each message
    last_attempt,            \* history: the latest delivery attempt
    sticker_retry_left,      \* history: time left of the last sticker FloodWait
    content_retry_left,      \* history: time left of the last content FloodWait
    paused_enq,              \* history: ids enqueued during the current pause
    original_text,           \* worker_engine local: the text after cleaning
    final_text,              \* worker_engine local: the caption to publish
    content_calls,           \* history: forward/copy calls made per message
    pause_obs,               \* history: what the engine held when it paused
    stk_log,                 \* history: the album decisions, in order (kept
                             \* only by the runs that record them)
    stats,                   \* stats table of the database (summed over days)
    user_input_mode,         \* user_input_mode of the operator
    pack_name,               \* send_smart_sticker local: the pack chosen
    stk_sent,                \* history: the sticker sent in this cycle, and
                             \* the time left of its settle interval
    pace_left,               \* history: time left of the last pacing delay
    cb,                      \* the callback query callback_router is handling
    accepted_at,             \* history: target_channel when each message was
                             \* accepted
    config,                  \* publish.py: the config table
    schedule,                \* publish.py: the schedule table (due rows)
    sched,                   \* publish.py: position and locals of
                             \* schedule_engine
    queue,                   \* publish.py: state.queue
    worker,                  \* publish.py: position and locals of queue_worker
    sent,                    \* publish.py history: the sends to the target
    handled                  \* history: what message_processor did with the
                             \* last message

vars == << settings, sticker_sets, vip_queue, msg_queue, vip_unfinished,
           msg_unfinished, pc, message, is_vip, last_processed_album_id,
           target_id, sleep_left, next_id, deq_log, outcome, last_attempt,
           sticker_retry_left, content_retry_left, paused_enq, original_text,
           final_text, content_calls, pause_obs, stk_log, stats,
           user_input_mode, pack_name, stk_sent, pace_left, cb, accepted_at,
           config, schedule, sched, queue, worker, sent, handled >>

----------------------------------------------------------------------------
(* Bounds of the model *)

MaxItems == 2
MaxRetryAfter == 2
AlbumLen == 4

RetryAfters == 1..MaxRetryAfter

----------------------------------------------------------------------------
(* Values *)

None == "None"

PauseCheckInterval == 5

MinDelay == 5

StickerSettleDelay == 1

\* captions of incoming messages, as sequences of characters
CaptionInputs == { << "h", "i" >>, << "#", "V", "i", "p" >> }

\* media_group_id of incoming messages; albums are examined on the backlogs
\* of AlbumInit
GroupInputs == { None }

\* destinations an operator can configure
ChannelInputs == { "-1001" }

\* sticker file ids an operator can configure
StickerInputs == { "stk" }

\* sticker pack names an operator can add
PackInputs == { "pack" }

DefaultSettings ==
    [ target_channel    |-> "0",
      delay             |-> "30",
      footer            |-> << "N", "O", "N", "E" >>,
      mode              |-> "copy",
      is_paused         |-> "0",
      sticker_state     |-> "ON",
      sticker_mode      |-> "RANDOM",
      single_sticker_id |-> "",
      caption_cleaner   |-> "OFF" ]

\* int(s) for the decimal strings the settings hold
IntOf(s) ==
    CASE s = "0"     -> 0
      [] s = "4"     -> 4
      [] s = "5"     -> 5
      [] s = "7"     -> 7
      [] s = "-7"    -> -7
      [] s = "30"    -> 30
      [] s = "-1001" -> -1001
      [] s = "-1002" -> -1002

\* str(n) for the integers the operator's inputs stand for
StrOf(n) ==
    CASE n = -7 -> "-7"
      [] n = 0  -> "0"
      [] n = 4  -> "4"
      [] n = 5  -> "5"
      [] n = 7  -> "7"
      [] n = 30 -> "30"
      [] n = -1001 -> "-1001"
      [] n = -1002 -> "-1002"

\* str.lower() on one character
LowerChar(c) ==
    CASE c = "V" -> "v"
      [] c = "I" -> "i"
      [] c = "P" -> "p"
      [] c = "U" -> "u"
      [] c = "R" -> "r"
      [] c = "G" -> "g"
      [] c = "E" -> "e"
      [] c = "N" -> "n"
      [] c = "T" -> "t"
      [] c = "H" -> "h"
      [] OTHER   -> c

Lower(s) == [ i \in 1..Len(s) |-> LowerChar(s[i]) ]

\* `sub in s` for sequences of characters
Contains(s, sub) ==
    \E i \in 0..(Len(s) - Len(sub)) :
        \A j \in 1..Len(sub) : s[i + j] = sub[j]

IsVipCaption_CaseSensitive(caption) ==
    \/ Contains(caption, << "#", "u", "r", "g", "e", "n", "t" >>)
    \/ Contains(caption, << "#", "v", "i", "p" >>)

\* the priority test of message_processor
IsVipCaption(caption) ==
    \/ Contains(Lower(caption), << "#", "u", "r", "g", "e", "n", "t" >>)
    \/ Contains(Lower(caption), << "#", "v", "i", "p" >>)

----------------------------------------------------------------------------
(* Caption preparation of worker_engine; a text is a sequence of characters *)

\* what \s matches, and what str.strip() removes
WhiteSpace == { " ", "\n", "\t" }

Letters ==
    { "a", "b", "c", "d", "e", "f", "g", "h", "i", "j", "k", "l", "m", "n",
      "o", "p", "q", "r", "s", "t", "u", "v", "w", "x", "y", "z",
      "A", "B", "C", "D", "E", "F", "G", "H", "I", "J", "K", "L", "M", "N",
      "O", "P", "Q", "R", "S", "T", "U", "V", "W", "X", "Y", "Z" }

Digits == { "0", "1", "2", "3", "4", "5", "6", "7", "8", "9" }

\* what \w matches
WordChars == Letters \cup Digits \cup { "_" }

\* the value of the footer setting that stands for "no footer"
NoFooter == << "N", "O", "N", "E" >>

\* number of leading characters c of s with (c \in S) = member
RECURSIVE LeadingRun(_, _, _)
LeadingRun(s, S, member) ==
    IF s # << >> /\ ((Head(s) \in S) = member)
      THEN 1 + LeadingRun(Tail(s), S, member)
      ELSE 0

StartsWith(s, prefix) ==
    /\ Len(s) >= Len(prefix)
    /\ SubSeq(s, 1, Len(prefix)) = prefix

\* s[n:]
DropFirst(s, n) == SubSeq(s, n + 1, Len(s))

\* re.sub(r'http\S+', '', s)
RECURSIVE RemoveLinks(_)
RemoveLinks(s) ==
    IF s = << >>
      THEN << >>
      ELSE IF /\ StartsWith(s, << "h", "t", "t", "p" >>)
              /\ LeadingRun(DropFirst(s, 4), WhiteSpace, FALSE) >= 1
             THEN RemoveLinks(
                      DropFirst(s, 4 + LeadingRun(DropFirst(s, 4),
                                                  WhiteSpace, FALSE)))
             ELSE << Head(s) >> \o RemoveLinks(Tail(s))

\* re.sub(r'@\w+', '', s)
RECURSIVE RemoveHandles(_)
RemoveHandles(s) ==
    IF s = << >>
      THEN << >>
      ELSE IF /\ Head(s) = "@"
              /\ LeadingRun(Tail(s), WordChars, TRUE) >= 1
             THEN RemoveHandles(
                      DropFirst(s, 1 + LeadingRun(Tail(s), WordChars, TRUE)))
             ELSE << Head(s) >> \o RemoveHandles(Tail(s))

Reverse(s) == [ i \in 1..Len(s) |-> s[Len(s) + 1 - i] ]

\* str.strip()
Strip(s) ==
    LET front == LeadingRun(s, WhiteSpace, TRUE)
        back  == LeadingRun(Reverse(s), WhiteSpace, TRUE)
    IN  IF front = Len(s) THEN << >>
                          ELSE SubSeq(s, front + 1, Len(s) - back)

\* original_text = message.text or message.caption or ""
OriginalText(m) == IF m.text # << >> THEN m.text ELSE m.caption

\* the Auto-Cleaner step
CleanText(cleaner_mode, text) ==
    IF cleaner_mode = "ON" /\ text # << >>
      THEN Strip(RemoveHandles(RemoveLinks(text)))
      ELSE text

FooterMerge_NoSeparator(text, footer) ==
    IF footer # NoFooter /\ footer # << >>
      THEN text \o footer
      ELSE text

\* the Merge Footer step
FooterMerge(text, footer) ==
    IF footer # NoFooter /\ footer # << >>
      THEN IF text # << >>
             THEN text \o << "\n", "\n" >> \o footer
             ELSE footer
      ELSE text

----------------------------------------------------------------------------
(* asyncio.Queue *)

QueueGet_Last(q) ==
    [ item |-> q[Len(q)], rest |-> SubSeq(q, 1, Len(q) - 1) ]

QueueGet_Peek(q) ==
    [ item |-> Head(q), rest |-> q ]

\* Queue.get() on a non-empty queue: removes and returns the oldest item
QueueGet(q) ==
    [ item |-> Head(q), rest |-> Tail(q) ]

QueuePut_Front(q, m) == << m >> \o q

\* Queue.put(): appends (the queues are unbounded, so put never waits)
QueuePut(q, m) == Append(q, m)

Ids(q) == { q[i].id : i \in 1..Len(q) }

----------------------------------------------------------------------------
(* Engine positions *)

Suspended ==
    { "idle", "pause_sleep", "stk_fixed_call", "stk_resolve_call",
      "stk_send_call", "stk_settle", "content_call", "pace_sleep",
      "flood_sleep" }

\* the event loop may run another coroutine
Yielded == pc \in Suspended \/ pc = "dead"

\* the engine holds no message yet
NoMessage ==
    [ id |-> 0, text |-> << >>, caption |-> << >>, media_group_id |-> None ]

\* the engine has not observed the pause flag set
NoPause == [ active |-> FALSE, id |-> 0, deqs |-> 0 ]

\* the stats table of a fresh database
NoStats == [ processed |-> 0, errors |-> 0 ]

\* send_smart_sticker has resolved no pack and sent no sticker in this cycle
NoSticker == [ id |-> 0, left |-> 0, resolved |-> "none", chat_id |-> 0 ]

\* documents sticker packs are made of
DocInputs == { "d1", "d2" }

\* pack_data.documents of a pack that has members: the pack "pack" has one
\* document, every other pack has them all
PackDocs(pack) ==
    { [ pack |-> pack, doc |-> d ] :
        d \in IF pack = "pack" THEN { "d1" } ELSE DocInputs }

\* the sticker a fixed file id stands for
FixedRef(file_id) == [ pack |-> "", doc |-> file_id ]

NoRef == [ pack |-> "", doc |-> "" ]

NoAttempt ==
    [ kind |-> "none", id |-> 0, paused |-> "0", sticker_wait |-> 0,
      content_wait |-> 0, settle_wait |-> 0, ref |-> NoRef,
      method |-> "none", text |-> << >>, chat_id |-> 0 ]

Attempt(kind) ==
    [ kind         |-> kind,
      id           |-> message.id,
      paused       |-> settings.is_paused,
      sticker_wait |-> sticker_retry_left,
      content_wait |-> content_retry_left,
      settle_wait  |-> IF stk_sent.id = message.id THEN stk_sent.left ELSE 0,
      ref          |-> NoRef,
      method       |-> "none",
      text         |-> << >>,
      chat_id      |-> 0 ]

\* the chat a sticker goes to: send_smart_sticker(app, target_id) hands the
\* engine's local to client.send_sticker(chat_id, ...)
StickerChat(local, st) == local

ContentChat_Reread(local, st) == IntOf(st.target_channel)

\* the chat the content goes to: message.forward(target_id),
\* message.copy(chat_id=target_id, ...)
ContentChat(local, st) == local

\* a sticker send: the sticker handed to the Delivery API
StickerAttempt(ref) ==
    [ Attempt("sticker") EXCEPT !.ref = ref,
                                !.chat_id = StickerChat(target_id, settings) ]

\* a content send: the call made, and the text the new message is given
ContentAttempt(method, text) ==
    [ Attempt("content") EXCEPT !.method = method, !.text = text,
                                !.chat_id = ContentChat(target_id, settings) ]

\* message_processor has handled no message
NotHandled == [ as |-> "none", accept |-> FALSE ]

\* callback_router is handling no callback query
NoCallback ==
    [ data |-> None, depth |-> 0, at |-> "none", writes |-> 0,
      before |-> DefaultSettings ]

\* publish.py, Database.init_db: the defaults of the config table
DefaultConfig ==
    [ target_channel |-> "0", footer |-> NoFooter, header |-> NoFooter,
      mode |-> "copy", is_paused |-> "0", clean_links |-> "0" ]

\* publish.py: schedule_engine before its first pass; picked lists the
\* tasks the current pass fetched
SchedulerStart ==
    [ at |-> "poll", pending |-> << >>, task |-> 0, picked |-> {} ]

\* publish.py: queue_worker before its first state.queue.get(); gets counts
\* the messages taken from state.queue
WorkerStart ==
    [ at |-> "get", message |-> NoMessage, target |-> 0,
      final_text |-> << >>, gets |-> 0 ]

Init ==
    /\ settings = DefaultSettings
    /\ sticker_sets = {}
    /\ vip_queue = << >>
    /\ msg_queue = << >>
    /\ vip_unfinished = 0
    /\ msg_unfinished = 0
    /\ pc = "fetch"
    /\ message = NoMessage
    /\ is_vip = FALSE
    /\ last_processed_album_id = None
    /\ target_id = 0
    /\ sleep_left = 0
    /\ next_id = 1
    /\ deq_log = << >>
    /\ outcome = << >>
    /\ last_attempt = NoAttempt
    /\ sticker_retry_left = 0
    /\ content_retry_left = 0
    /\ paused_enq = {}
    /\ original_text = << >>
    /\ final_text = << >>
    /\ content_calls = << >>
    /\ pause_obs = NoPause
    /\ stk_log = [ on |-> FALSE, steps |-> << >> ]
    /\ stats = NoStats
    /\ user_input_mode = None
    /\ pack_name = None
    /\ stk_sent = NoSticker
    /\ pace_left = 0
    /\ cb = NoCallback
    /\ accepted_at = << >>
    /\ config = DefaultConfig
    /\ schedule = << >>
    /\ sched = SchedulerStart
    /\ queue = << >>
    /\ worker = WorkerStart
    /\ sent = << >>
    /\ handled = NotHandled

----------------------------------------------------------------------------
(* worker_engine *)

FloodWaitSleep_Skip(value) == 0

\* except FloodWait: await asyncio.sleep(e.value)
FloodWaitSleep(value) == value

PacingSleep_Skip(delay) == 0

\* await asyncio.sleep(int(delay)) after a delivery
PacingSleep(delay) == IntOf(delay)

UpdateStats_Overwrite(st, processed, errors) ==
    [ processed |-> processed, errors |-> errors ]

UpdateStats_CountBoth(st, processed, errors) ==
    [ processed |-> st.processed + processed + errors,
      errors    |-> st.errors + errors ]

\* db.update_stats(processed=..., errors=...)
UpdateStats(st, processed, errors) ==
    [ processed |-> st.processed + processed,
      errors    |-> st.errors + errors ]

\* message = await <lane>.get(), on a lane that holds an item
TakeFrom(lane) ==
    LET q == IF lane = "vip" THEN vip_queue ELSE msg_queue
        g == QueueGet(q)
    IN  /\ message' = g.item
        /\ is_vip' = (lane = "vip")
        /\ vip_queue' = IF lane = "vip" THEN g.rest ELSE vip_queue
        /\ msg_queue' = IF lane = "msg" THEN g.rest ELSE msg_queue
        /\ deq_log' = Append(deq_log,
                             [ id           |-> g.item.id,
                               lane         |-> lane,
                               vip_len      |-> Len(vip_queue),
                               prev_done    |-> \/ message = NoMessage
                                                \/ message.id \in DOMAIN outcome,
                               content_wait |-> content_retry_left,
                               pace_wait    |-> pace_left ])
        /\ pc' = "pause_chk"

\* top of the loop: VIP lane if it holds something, else msg_queue.get(),
\* which suspends when the normal lane is empty
Fetch ==
    /\ pc = "fetch"
    /\ IF vip_queue # << >>
         THEN TakeFrom("vip")
         ELSE IF msg_queue # << >>
                THEN TakeFrom("msg")
                ELSE /\ pc' = "idle"
                     /\ UNCHANGED << vip_queue, msg_queue, message, is_vip,
                                     deq_log >>
    /\ UNCHANGED << settings, sticker_sets, vip_unfinished, msg_unfinished,
                    last_processed_album_id, target_id, sleep_left, next_id,
                    outcome, last_attempt, sticker_retry_left,
                    content_retry_left, paused_enq,
                    content_calls, pause_obs, stk_log, final_text,
                    original_text,
                    stats, user_input_mode, pack_name, stk_sent, pace_left,
                    cb, accepted_at, config, schedule, sched, queue, worker, sent,
                    handled >>

\* the suspended msg_queue.get() returns once the normal lane holds an item
IdleWake ==
    /\ pc = "idle"
    /\ msg_queue # << >>
    /\ TakeFrom("msg")
    /\ UNCHANGED << settings, sticker_sets, vip_unfinished, msg_unfinished,
                    last_processed_album_id, target_id, sleep_left, next_id,
                    outcome, last_attempt, sticker_retry_left,
                    content_retry_left, paused_enq,
                    content_calls, pause_obs, stk_log, final_text,
                    original_text,
                    stats, user_input_mode, pack_name, stk_sent, pace_left,
                    cb, accepted_at, config, schedule, sched, queue, worker, sent,
                    handled >>

Unfinished == IF is_vip THEN vip_unfinished ELSE msg_unfinished

\* Queue.task_done() on the lane of the message, when it does not raise
TaskDone ==
    /\ vip_unfinished' = IF is_vip THEN vip_unfinished - 1 ELSE vip_unfinished
    /\ msg_unfinished' = IF is_vip THEN msg_unfinished ELSE msg_unfinished - 1

\* pause poll and destination check
PauseCheck ==
    /\ pc = "pause_chk"
    /\ IF settings.is_paused = "1"
         THEN /\ pc' = "pause_sleep"
              /\ sleep_left' = PauseCheckInterval
              /\ pause_obs' = IF pause_obs.active
                                THEN pause_obs
                                ELSE [ active |-> TRUE,
                                       id     |-> message.id,
                                       deqs   |-> Len(deq_log) ]
              /\ UNCHANGED << vip_unfinished, msg_unfinished, outcome,
                              target_id, stats >>
         ELSE IF settings.target_channel = "0"
                THEN \* drop: task_done(), then `continue` runs the finally;
                     \* a task_done() that raises is caught by
                     \* `except Exception`, which counts an error
                     /\ outcome' = outcome @@ (message.id :> "dropped")
                     /\ IF Unfinished <= 0
                          THEN /\ stats' = UpdateStats(stats, 0, 1)
                               /\ UNCHANGED << vip_unfinished, msg_unfinished >>
                          ELSE /\ TaskDone
                               /\ UNCHANGED stats
                     /\ pc' = "finally"
                     /\ pause_obs' = NoPause
                     /\ UNCHANGED << sleep_left, target_id >>
                ELSE /\ target_id' = IntOf(settings.target_channel)
                     /\ pc' = "album"
                     /\ pause_obs' = NoPause
                     /\ UNCHANGED << vip_unfinished, msg_unfinished, outcome,
                                     sleep_left, stats >>
    /\ UNCHANGED << settings, sticker_sets, vip_queue, msg_queue, message,
                    is_vip, last_processed_album_id, next_id, deq_log,
                    last_attempt, sticker_retry_left, content_retry_left,
                    paused_enq,
                    content_calls, stk_log, final_text,
                    original_text,
                    user_input_mode, pack_name, stk_sent, pace_left,
                    cb, accepted_at, config, schedule, sched, queue, worker, sent,
                    handled >>

PauseWake_Resleep ==
    /\ pc = "pause_sleep"
    /\ sleep_left = 0
    /\ pc' = "pause_sleep"
    /\ sleep_left' = PauseCheckInterval
    /\ UNCHANGED << settings, sticker_sets, vip_queue, msg_queue,
                    vip_unfinished, msg_unfinished, message, is_vip,
                    last_processed_album_id, target_id, next_id,
                    deq_log, outcome, last_attempt, sticker_retry_left,
                    content_retry_left, paused_enq,
                    content_calls, pause_obs, stk_log, final_text,
                    original_text,
                    stats, user_input_mode, pack_name, stk_sent, pace_left,
                    cb, accepted_at, config, schedule, sched, queue, worker, sent,
                    handled >>

PauseWake_Refetch ==
    /\ pc = "pause_sleep"
    /\ sleep_left = 0
    /\ pc' = "fetch"
    /\ UNCHANGED << settings, sticker_sets, vip_queue, msg_queue,
                    vip_unfinished, msg_unfinished, message, is_vip,
                    last_processed_album_id, target_id, sleep_left, next_id,
                    deq_log, outcome, last_attempt, sticker_retry_left,
                    content_retry_left, paused_enq,
                    content_calls, pause_obs, stk_log, final_text,
                    original_text,
                    stats, user_input_mode, pack_name, stk_sent, pace_left,
                    cb, accepted_at, config, schedule, sched, queue, worker, sent,
                    handled >>

\* asyncio.sleep(5) of the pause poll is over
PauseWake ==
    /\ pc = "pause_sleep"
    /\ sleep_left = 0
    /\ pc' = "pause_chk"
    /\ UNCHANGED << settings, sticker_sets, vip_queue, msg_queue,
                    vip_unfinished, msg_unfinished, message, is_vip,
                    last_processed_album_id, target_id, sleep_left, next_id,
                    deq_log, outcome, last_attempt, sticker_retry_left,
                    content_retry_left, paused_enq,
                    content_calls, pause_obs, stk_log, final_text,
                    original_text,
                    stats, user_input_mode, pack_name, stk_sent, pace_left,
                    cb, accepted_at, config, schedule, sched, queue, worker, sent,
                    handled >>

ShouldSendSticker_NoneRepeats(current_group_id, cursor) ==
    current_group_id # cursor

\* should_send_sticker of the album logic
ShouldSendSticker(current_group_id, cursor) ==
    ~ (current_group_id # None /\ current_group_id = cursor)

NextAlbumId_KeepOnNone(current_group_id, cursor) ==
    IF current_group_id # None THEN current_group_id ELSE cursor

\* last_processed_album_id after the album logic
NextAlbumId(current_group_id, cursor) ==
    IF current_group_id # None
      THEN IF current_group_id = cursor THEN cursor ELSE current_group_id
      ELSE None

StickerEnabled_Always(state) == TRUE

\* send_smart_sticker goes on past its sticker_state test
StickerEnabled(state) == state # "OFF"

FixedSticker_AnyMode(st) == st.single_sticker_id # ""

\* send_smart_sticker sends the fixed sticker
FixedSticker(st) ==
    st.sticker_mode = "SINGLE" /\ st.single_sticker_id # ""

\* album logic, then send_smart_sticker up to its first network call
Album ==
    /\ pc = "album"
    /\ last_processed_album_id' =
          NextAlbumId(message.media_group_id, last_processed_album_id)
    /\ IF ~ ShouldSendSticker(message.media_group_id, last_processed_album_id)
         THEN pc' = "publish" /\ UNCHANGED << last_attempt, pack_name >>
         ELSE IF ~ StickerEnabled(settings.sticker_state)
                THEN pc' = "publish" /\ UNCHANGED << last_attempt, pack_name >>
                ELSE IF FixedSticker(settings)
                       THEN /\ pc' = "stk_fixed_call"
                            /\ last_attempt' =
                                  StickerAttempt(
                                      FixedRef(settings.single_sticker_id))
                            /\ UNCHANGED pack_name
                       ELSE IF sticker_sets = {}
                              THEN /\ pc' = "publish"
                                   /\ UNCHANGED << last_attempt, pack_name >>
                              ELSE \* pack_name = random.choice(packs)
                                   /\ pc' = "stk_resolve_call"
                                   /\ \E p \in sticker_sets : pack_name' = p
                                   /\ UNCHANGED last_attempt
    /\ stk_log' =
          IF stk_log.on
            THEN [ stk_log EXCEPT !.steps =
                     Append(@, [ id        |-> message.id,
                                 group     |-> message.media_group_id,
                                 attempted |-> (pc' # "publish") ]) ]
            ELSE stk_log
    /\ UNCHANGED << settings, sticker_sets, vip_queue, msg_queue,
                    vip_unfinished, msg_unfinished, message, is_vip,
                    target_id, sleep_left, next_id, deq_log, outcome,
                    sticker_retry_left, content_retry_left, paused_enq,
                    content_calls, pause_obs, final_text,
                    original_text,
                    stats, user_input_mode, stk_sent, pace_left,
                    cb, accepted_at, config, schedule, sched, queue, worker, sent,
                    handled >>

\* what a sticker send does when the Delivery API answers
StickerAnswer_Abort(res, retry_after) ==
    /\ IF res = "ok"
         THEN /\ pc' = "stk_settle"
              /\ sleep_left' = StickerSettleDelay
              /\ stk_sent' = [ stk_sent EXCEPT !.id = message.id,
                                               !.left = StickerSettleDelay,
                                               !.chat_id =
                                                   last_attempt.chat_id ]
              /\ UNCHANGED << sticker_retry_left, pack_name >>
         ELSE /\ pc' = "finally"
              /\ sticker_retry_left' =
                    IF res = "flood" THEN retry_after ELSE sticker_retry_left
              /\ pack_name' = None
              /\ UNCHANGED << sleep_left, stk_sent >>
    /\ UNCHANGED << settings, sticker_sets, vip_queue, msg_queue,
                    vip_unfinished, msg_unfinished, message, is_vip,
                    last_processed_album_id, target_id, next_id, deq_log,
                    outcome, last_attempt, content_retry_left, paused_enq,
                    content_calls, pause_obs, stk_log, final_text,
                    original_text,
                    stats, user_input_mode, pace_left,
                    cb, accepted_at, config, schedule, sched, queue, worker, sent,
                    handled >>

StickerAnswer_NoSettle(res, retry_after) ==
    /\ IF res = "ok"
         THEN /\ pc' = "publish"
              /\ stk_sent' = [ stk_sent EXCEPT !.id = message.id,
                                               !.left = StickerSettleDelay,
                                               !.chat_id =
                                                   last_attempt.chat_id ]
              /\ pack_name' = None
              /\ UNCHANGED << sticker_retry_left, sleep_left >>
         ELSE /\ pc' = "publish"
              /\ sticker_retry_left' =
                    IF res = "flood" THEN retry_after ELSE sticker_retry_left
              /\ pack_name' = None
              /\ UNCHANGED << sleep_left, stk_sent >>
    /\ UNCHANGED << settings, sticker_sets, vip_queue, msg_queue,
                    vip_unfinished, msg_unfinished, message, is_vip,
                    last_processed_album_id, target_id, next_id, deq_log,
                    outcome, last_attempt, content_retry_left, paused_enq,
                    content_calls, pause_obs, stk_log, final_text,
                    original_text,
                    stats, user_input_mode, pace_left,
                    cb, accepted_at, config, schedule, sched, queue, worker, sent,
                    handled >>

StickerAnswer(res, retry_after) ==
    /\ IF res = "ok"
         THEN /\ pc' = "stk_settle"
              /\ sleep_left' = StickerSettleDelay
              /\ stk_sent' = [ stk_sent EXCEPT !.id = message.id,
                                               !.left = StickerSettleDelay,
                                               !.chat_id =
                                                   last_attempt.chat_id ]
              /\ UNCHANGED << sticker_retry_left, pack_name >>
         ELSE \* except Exception: pass  (FloodWait included)
              /\ pc' = "publish"
              /\ sticker_retry_left' =
                    IF res = "flood" THEN retry_after ELSE sticker_retry_left
              /\ pack_name' = None
              /\ UNCHANGED << sleep_left, stk_sent >>
    /\ UNCHANGED << settings, sticker_sets, vip_queue, msg_queue,
                    vip_unfinished, msg_unfinished, message, is_vip,
                    last_processed_album_id, target_id, next_id, deq_log,
                    outcome, last_attempt, content_retry_left, paused_enq,
                    content_calls, pause_obs, stk_log, final_text,
                    original_text,
                    stats, user_input_mode, pace_left,
                    cb, accepted_at, config, schedule, sched, queue, worker, sent,
                    handled >>

\* client.send_sticker(chat_id, file_id) returns or raises
StickerFixedReturn(res, retry_after) ==
    /\ pc = "stk_fixed_call"
    /\ StickerAnswer(res, retry_after)

\* GetStickerSet returns the pack's documents, or raises
StickerResolveReturn(res) ==
    /\ pc = "stk_resolve_call"
    /\ IF res = "documents"
         THEN \* sticker = random.choice(pack_data.documents)
              /\ pc' = "stk_send_call"
              /\ \E sticker \in PackDocs(pack_name) :
                    last_attempt' = StickerAttempt(sticker)
              /\ UNCHANGED pack_name
         ELSE \* no documents, or an exception that is swallowed
              /\ pc' = "publish"
              /\ pack_name' = None
              /\ UNCHANGED last_attempt
    /\ stk_sent' = [ stk_sent EXCEPT !.resolved = res ]
    /\ UNCHANGED << settings, sticker_sets, vip_queue, msg_queue,
                    vip_unfinished, msg_unfinished, message, is_vip,
                    last_processed_album_id, target_id, sleep_left, next_id,
                    deq_log, outcome, sticker_retry_left, content_retry_left,
                    paused_enq,
                    content_calls, pause_obs, stk_log, final_text,
                    original_text,
                    stats, user_input_mode, pace_left,
                    cb, accepted_at, config, schedule, sched, queue, worker, sent,
                    handled >>

\* SendMedia of the random sticker returns or raises
StickerSendReturn(res, retry_after) ==
    /\ pc = "stk_send_call"
    /\ StickerAnswer(res, retry_after)

\* asyncio.sleep(1.0) after a sticker is over
SettleWake ==
    /\ pc = "stk_settle"
    /\ sleep_left = 0
    /\ pc' = "publish"
    /\ pack_name' = None
    /\ UNCHANGED << settings, sticker_sets, vip_queue, msg_queue,
                    vip_unfinished, msg_unfinished, message, is_vip,
                    last_processed_album_id, target_id, sleep_left, next_id,
                    deq_log, outcome, last_attempt, sticker_retry_left,
                    content_retry_left, paused_enq,
                    content_calls, pause_obs, stk_log, final_text,
                    original_text,
                    stats, user_input_mode, stk_sent, pace_left,
                    cb, accepted_at, config, schedule, sched, queue, worker, sent,
                    handled >>

DeliveredText_Caption(mode, m, caption) == caption

\* the text the content call hands over: message.forward(target_id) passes
\* the message as it was received, message.copy(chat_id=target_id,
\* caption=final_text) passes the prepared caption
DeliveredText(mode, m, caption) ==
    IF mode = "forward" THEN OriginalText(m) ELSE caption

Publish_Detached ==
    /\ pc = "publish"
    /\ original_text' =
          CleanText(settings.caption_cleaner, OriginalText(message))
    /\ final_text' = FooterMerge(original_text', settings.footer)
    /\ last_attempt' =
          ContentAttempt(IF settings.mode = "forward" THEN "forward"
                                                      ELSE "copy",
                         DeliveredText(settings.mode, message, final_text'))
    /\ stk_sent' = NoSticker
    /\ content_calls' =
          IF message.id \in DOMAIN content_calls
            THEN [ content_calls EXCEPT ![message.id] = @ + 1 ]
            ELSE content_calls @@ (message.id :> 1)
    /\ pc' = "fetch"
    /\ UNCHANGED << settings, sticker_sets, vip_queue, msg_queue,
                    vip_unfinished, msg_unfinished, message, is_vip,
                    last_processed_album_id, target_id, sleep_left, next_id,
                    deq_log, outcome, sticker_retry_left, content_retry_left,
                    paused_enq, pause_obs, stk_log,
                    stats, user_input_mode, pack_name, pace_left,
                    cb, accepted_at, config, schedule, sched, queue, worker, sent,
                    handled >>

\* content preparation, then message.forward / message.copy is called
Publish ==
    /\ pc = "publish"
    /\ original_text' =
          CleanText(settings.caption_cleaner, OriginalText(message))
    /\ final_text' = FooterMerge(original_text', settings.footer)
    /\ last_attempt' =
          ContentAttempt(IF settings.mode = "forward" THEN "forward"
                                                      ELSE "copy",
                         DeliveredText(settings.mode, message, final_text'))
    /\ stk_sent' = NoSticker
    /\ content_calls' =
          IF message.id \in DOMAIN content_calls
            THEN [ content_calls EXCEPT ![message.id] = @ + 1 ]
            ELSE content_calls @@ (message.id :> 1)
    /\ pc' = "content_call"
    /\ UNCHANGED << settings, sticker_sets, vip_queue, msg_queue,
                    vip_unfinished, msg_unfinished, message, is_vip,
                    last_processed_album_id, target_id, sleep_left, next_id,
                    deq_log, outcome, sticker_retry_left, content_retry_left,
                    paused_enq,
                    pause_obs, stk_log,
                    stats, user_input_mode, pack_name, pace_left,
                    cb, accepted_at, config, schedule, sched, queue, worker, sent,
                    handled >>

\* message.forward / message.copy returns or raises
ContentReturn(res, retry_after) ==
    /\ pc = "content_call"
    /\ CASE res = "ok" ->
              /\ outcome' = outcome @@ (message.id :> "published")
              /\ stats' = UpdateStats(stats, 1, 0)
              /\ sleep_left' = PacingSleep(settings.delay)
              /\ pace_left' = IntOf(settings.delay)
              /\ pc' = "pace_sleep"
              /\ UNCHANGED content_retry_left
         [] res = "flood" ->
              /\ outcome' = outcome @@ (message.id :> "flood")
              /\ sleep_left' = FloodWaitSleep(retry_after)
              /\ content_retry_left' = retry_after
              /\ pc' = "flood_sleep"
              /\ UNCHANGED << stats, pace_left >>
         [] res \in { "rpc_error", "error" } ->
              /\ outcome' = outcome @@ (message.id :> "error")
              /\ stats' = UpdateStats(stats, 0, 1)
              /\ pc' = "finally"
              /\ UNCHANGED << sleep_left, content_retry_left, pace_left >>
    /\ UNCHANGED << settings, sticker_sets, vip_queue, msg_queue,
                    vip_unfinished, msg_unfinished, message, is_vip,
                    last_processed_album_id, target_id, next_id, deq_log,
                    last_attempt, sticker_retry_left, paused_enq,
                    content_calls, pause_obs, stk_log, final_text,
                    original_text,
                    user_input_mode, pack_name, stk_sent,
                    cb, accepted_at, config, schedule, sched, queue, worker, sent,
                    handled >>

\* the pacing sleep or the FloodWait sleep is over
SleepWake ==
    /\ pc \in { "pace_sleep", "flood_sleep" }
    /\ sleep_left = 0
    /\ pc' = "finally"
    /\ UNCHANGED << settings, sticker_sets, vip_queue, msg_queue,
                    vip_unfinished, msg_unfinished, message, is_vip,
                    last_processed_album_id, target_id, sleep_left, next_id,
                    deq_log, outcome, last_attempt, sticker_retry_left,
                    content_retry_left, paused_enq,
                    content_calls, pause_obs, stk_log, final_text,
                    original_text,
                    stats, user_input_mode, pack_name, stk_sent, pace_left,
                    cb, accepted_at, config, schedule, sched, queue, worker, sent,
                    handled >>

Finally_Redeliver ==
    /\ pc = "finally"
    /\ IF outcome[message.id] = "flood"
         THEN /\ pc' = "publish"
              /\ UNCHANGED << vip_unfinished, msg_unfinished >>
         ELSE IF Unfinished <= 0
                THEN /\ pc' = "dead"
                     /\ UNCHANGED << vip_unfinished, msg_unfinished >>
                ELSE /\ TaskDone
                     /\ pc' = "fetch"
    /\ UNCHANGED << settings, sticker_sets, vip_queue, msg_queue, message,
                    is_vip, last_processed_album_id, target_id, sleep_left,
                    next_id, deq_log, outcome, last_attempt,
                    sticker_retry_left, content_retry_left, paused_enq,
                    content_calls, pause_obs, stk_log, final_text,
                    original_text,
                    stats, user_input_mode, pack_name, stk_sent, pace_left,
                    cb, accepted_at, config, schedule, sched, queue, worker, sent,
                    handled >>

\* finally: task_done() on the lane of the message; it raises ValueError
\* when the lane has no unfinished task, and nothing catches that
Finally ==
    /\ pc = "finally"
    /\ IF Unfinished <= 0
         THEN /\ pc' = "dead"
              /\ UNCHANGED << vip_unfinished, msg_unfinished >>
         ELSE /\ TaskDone
              /\ pc' = "fetch"
    /\ UNCHANGED << settings, sticker_sets, vip_queue, msg_queue, message,
                    is_vip, last_processed_album_id, target_id, sleep_left,
                    next_id, deq_log, outcome, last_attempt,
                    sticker_retry_left, content_retry_left, paused_enq,
                    content_calls, pause_obs, stk_log, final_text,
                    original_text,
                    stats, user_input_mode, pack_name, stk_sent, pace_left,
                    cb, accepted_at, config, schedule, sched, queue, worker, sent,
                    handled >>

----------------------------------------------------------------------------
(* Operator handlers; each runs while the engine is suspended *)

EngineLocals ==
    << pc, message, is_vip, last_processed_album_id, target_id, sleep_left >>

SetupRequired_Never(target_channel) == FALSE

\* if target_channel == "0": the message is answered with "Setup Required!"
\* and the handler returns
SetupRequired(target_channel) == target_channel = "0"

\* if user_id in user_input_mode: the message is configuration input
InInputMode(mode) == mode # None

\* message_processor, queue ingestion: destination gate, priority test, put
Accept(text, caption, group) ==
    /\ Yielded
    /\ next_id <= MaxItems
    /\ ~ InInputMode(user_input_mode)
    /\ ~ SetupRequired(settings.target_channel)
    /\ LET m == [ id |-> next_id, text |-> text, caption |-> caption,
                  media_group_id |-> group ]
       IN  IF IsVipCaption(caption)
             THEN /\ vip_queue' = QueuePut(vip_queue, m)
                  /\ vip_unfinished' = vip_unfinished + 1
                  /\ UNCHANGED << msg_queue, msg_unfinished >>
             ELSE /\ msg_queue' = QueuePut(msg_queue, m)
                  /\ msg_unfinished' = msg_unfinished + 1
                  /\ UNCHANGED << vip_queue, vip_unfinished >>
    /\ paused_enq' = IF settings.is_paused = "1"
                       THEN paused_enq \cup { next_id }
                       ELSE paused_enq
    /\ next_id' = next_id + 1
    /\ accepted_at' = accepted_at @@ ( next_id :> settings.target_channel )
    /\ handled' = [ as |-> "content", accept |-> TRUE ]
    /\ UNCHANGED << settings, sticker_sets, EngineLocals, deq_log, outcome,
                    last_attempt, sticker_retry_left, content_retry_left,
                    content_calls, pause_obs, stk_log, final_text,
                    original_text,
                    stats, user_input_mode, pack_name, stk_sent, pace_left,
                    cb, config, schedule, sched, queue, worker, sent >>

\* a media message, with a caption or without one (caption << >>)
Enqueue(caption, group) == Accept(<< >>, caption, group)

\* a text message: it has no caption and belongs to no album
EnqueueText(text) == Accept(text, << >>, None)

\* a handler that only writes the settings table
SetSettings(new) ==
    /\ Yielded
    /\ settings' = new
    /\ paused_enq' = IF new.is_paused = "1" THEN paused_enq ELSE {}
    /\ UNCHANGED << sticker_sets, vip_queue, msg_queue, vip_unfinished,
                    msg_unfinished, EngineLocals, next_id, deq_log, outcome,
                    last_attempt, sticker_retry_left, content_retry_left,
                    content_calls, pause_obs, stk_log, final_text,
                    original_text,
                    stats, user_input_mode, pack_name, stk_sent, pace_left,
                    cb, accepted_at, config, schedule, sched, queue, worker, sent,
                    handled >>

DigitValue(c) ==
    CASE c = "0" -> 0 [] c = "1" -> 1 [] c = "2" -> 2 [] c = "3" -> 3
      [] c = "4" -> 4 [] c = "5" -> 5 [] c = "6" -> 6 [] c = "7" -> 7
      [] c = "8" -> 8 [] c = "9" -> 9

RECURSIVE DecimalValue(_)
DecimalValue(s) ==
    IF s = << >> THEN 0
    ELSE 10 * DecimalValue(SubSeq(s, 1, Len(s) - 1)) + DigitValue(s[Len(s)])

\* int(message.text): surrounding whitespace is dropped, a sign may lead, the
\* rest must be decimal digits; ok is FALSE where int() raises (ValueError,
\* or TypeError for a message without text)
IntOfText(text) ==
    LET s      == Strip(text)
        signed == s # << >> /\ s[1] \in { "+", "-" }
        body   == IF signed THEN Tail(s) ELSE s
    IN  IF body = << >> \/ \E i \in 1..Len(body) : body[i] \notin Digits
          THEN [ ok |-> FALSE, val |-> 0 ]
          ELSE [ ok  |-> TRUE,
                 val |-> IF signed /\ s[1] = "-" THEN 0 - DecimalValue(body)
                                                 ELSE DecimalValue(body) ]

\* what the operator sends while asked for the delay; << >> is a message
\* without text
DelayTexts ==
    { << "4" >>, << "5" >>, << "7" >>, << "0", "7" >>, << " ", "7", "\n" >>,
      << "-", "7" >>, << "0" >>, << "5", ".", "5" >>, << "a", "b", "c" >>,
      << "7", "s" >>, << >> }

DelayAccepted_Any(val) == TRUE

\* if val < 5: raise ValueError
DelayAccepted(val) == val >= MinDelay

\* callback_router, ask_delay
AskDelay ==
    /\ Yielded
    /\ user_input_mode' = "SET_DELAY"
    /\ UNCHANGED << settings, sticker_sets, vip_queue, msg_queue,
                    vip_unfinished, msg_unfinished, EngineLocals, next_id,
                    deq_log, outcome, last_attempt, sticker_retry_left,
                    content_retry_left, paused_enq, content_calls, pause_obs,
                    stk_log, final_text, original_text, stats, pack_name,
                    stk_sent, pace_left,
                    cb, accepted_at, config, schedule, sched, queue, worker, sent,
                    handled >>

\* message_processor, SET_DELAY input: an accepted value is stored and the
\* input mode is left; a refused one is answered and the handler returns
\* before the cleanup
DelayInput(text) ==
    /\ Yielded
    /\ user_input_mode = "SET_DELAY"
    /\ LET parsed == IntOfText(text)
       IN  IF parsed.ok /\ DelayAccepted(parsed.val)
             THEN /\ settings' = [ settings EXCEPT !.delay = StrOf(parsed.val) ]
                  /\ user_input_mode' = None
             ELSE UNCHANGED << settings, user_input_mode >>
    /\ UNCHANGED << sticker_sets, vip_queue, msg_queue, vip_unfinished,
                    msg_unfinished, EngineLocals, next_id, deq_log, outcome,
                    last_attempt, sticker_retry_left, content_retry_left,
                    paused_enq, content_calls, pause_obs, stk_log, final_text,
                    original_text, stats, pack_name, stk_sent, pace_left,
                    cb, accepted_at, config, schedule, sched, queue, worker, sent,
                    handled >>

\* callback_router, pause_bot
PauseBot == SetSettings([ settings EXCEPT !.is_paused = "1" ])

\* callback_router, resume_bot
ResumeBot == SetSettings([ settings EXCEPT !.is_paused = "0" ])

\* message_processor, SET_CHANNEL input
SetChannel(target) ==
    SetSettings([ settings EXCEPT !.target_channel = target ])

\* message_processor, SET_SINGLE_STICKER input
SetSingleSticker(file_id) ==
    SetSettings([ settings EXCEPT !.single_sticker_id = file_id,
                                  !.sticker_mode = "SINGLE" ])

\* message_processor, ADD_STICKER input
AddStickerPack(pack) ==
    /\ Yielded
    /\ sticker_sets' = sticker_sets \cup { pack }
    /\ UNCHANGED << settings, vip_queue, msg_queue, vip_unfinished,
                    msg_unfinished, EngineLocals, next_id, deq_log, outcome,
                    last_attempt, sticker_retry_left, content_retry_left,
                    paused_enq,
                    content_calls, pause_obs, stk_log, final_text,
                    original_text,
                    stats, user_input_mode, pack_name, stk_sent, pace_left,
                    cb, accepted_at, config, schedule, sched, queue, worker, sent,
                    handled >>

\* restore_handler: the database file is replaced by a backup; the backup
\* restored here is the one of a freshly installed database
Restore ==
    /\ Yielded
    /\ settings' = DefaultSettings
    /\ sticker_sets' = {}
    /\ stats' = NoStats
    /\ paused_enq' = {}
    /\ UNCHANGED << vip_queue, msg_queue, vip_unfinished, msg_unfinished,
                    EngineLocals, next_id, deq_log, outcome, last_attempt,
                    sticker_retry_left, content_retry_left,
                    content_calls, pause_obs, stk_log, final_text,
                    original_text,
                    user_input_mode, pack_name, stk_sent, pace_left,
                    cb, accepted_at, config, schedule, sched, queue, worker, sent,
                    handled >>

\* the positive timers
RunningTimers ==
    { t \in { sleep_left, sticker_retry_left, content_retry_left,
              stk_sent.left, pace_left } : t > 0 }

Min(S) == CHOOSE x \in S : \A y \in S : x <= y

Elapse(t, d) == IF t > d THEN t - d ELSE 0

\* time passes, up to the next instant at which a timer runs out
Tick ==
    /\ Yielded
    /\ RunningTimers # {}
    /\ LET d == Min(RunningTimers)
       IN  /\ sleep_left' = Elapse(sleep_left, d)
           /\ sticker_retry_left' = Elapse(sticker_retry_left, d)
           /\ content_retry_left' = Elapse(content_retry_left, d)
           /\ stk_sent' = [ stk_sent EXCEPT !.left = Elapse(@, d) ]
           /\ pace_left' = Elapse(pace_left, d)
    /\ UNCHANGED << settings, sticker_sets, vip_queue, msg_queue,
                    vip_unfinished, msg_unfinished, pc, message, is_vip,
                    last_processed_album_id, target_id, next_id, deq_log,
                    outcome, last_attempt, paused_enq,
                    content_calls, pause_obs, stk_log, final_text,
                    original_text,
                    stats, user_input_mode, pack_name,
                    cb, accepted_at, config, schedule, sched, queue, worker, sent,
                    handled >>

----------------------------------------------------------------------------

SendResults == { "ok", "flood", "rpc_error", "error" }

EngineNext ==
    \/ Fetch
    \/ IdleWake
    \/ PauseCheck
    \/ PauseWake
    \/ Album
    \/ \E res \in SendResults, n \in RetryAfters : StickerFixedReturn(res, n)
    \/ \E res \in { "documents", "empty", "error" } : StickerResolveReturn(res)
    \/ \E res \in SendResults, n \in RetryAfters : StickerSendReturn(res, n)
    \/ SettleWake
    \/ Publish
    \/ \E res \in SendResults, n \in RetryAfters : ContentReturn(res, n)
    \/ SleepWake
    \/ Finally

OperatorNext ==
    \/ \E c \in CaptionInputs, g \in GroupInputs : Enqueue(c, g)
    \/ PauseBot
    \/ ResumeBot
    \/ \E t \in ChannelInputs : SetChannel(t)
    \/ \E f \in StickerInputs : SetSingleSticker(f)
    \/ \E p \in PackInputs : AddStickerPack(p)
    \/ Restore

Next == EngineNext \/ OperatorNext \/ Tick

Spec == Init /\ [][Next]_vars

\* The engine coroutine is scheduled whenever it can run, every delivery
\* call returns, time advances, and a paused system is resumed; nothing
\* obliges an operator to send further content.
FairSpec ==
    /\ Spec
    /\ WF_vars(EngineNext)
    /\ WF_vars(Tick)
    /\ WF_vars(ResumeBot)

----------------------------------------------------------------------------
(* The engine working through a backlog: a destination and a fixed sticker  *)
(* are configured, AlbumLen media messages with any group markers wait in   *)
(* the normal lane, and the engine is suspended in msg_queue.get().         *)

\* media_group_id of the messages of the backlog
AlbumGroups == { None, "g1", "g2" }

AlbumMessage(k, group) ==
    [ id |-> k, text |-> << >>, caption |-> << "h", "i" >>,
      media_group_id |-> group ]

AlbumInit ==
    /\ settings = [ DefaultSettings EXCEPT !.target_channel = "-1001",
                                            !.sticker_mode = "SINGLE",
                                            !.single_sticker_id = "stk" ]
    /\ sticker_sets = {}
    /\ vip_queue = << >>
    /\ \E groups \in [ 1..AlbumLen -> AlbumGroups ] :
          msg_queue = [ k \in 1..AlbumLen |-> AlbumMessage(k, groups[k]) ]
    /\ vip_unfinished = 0
    /\ msg_unfinished = AlbumLen
    /\ pc = "idle"
    /\ message = NoMessage
    /\ is_vip = FALSE
    /\ last_processed_album_id = None
    /\ target_id = 0
    /\ sleep_left = 0
    /\ next_id = AlbumLen + 1
    /\ deq_log = << >>
    /\ outcome = << >>
    /\ last_attempt = NoAttempt
    /\ sticker_retry_left = 0
    /\ content_retry_left = 0
    /\ paused_enq = {}
    /\ original_text = << >>
    /\ final_text = << >>
    /\ content_calls = << >>
    /\ pause_obs = NoPause
    /\ stk_log = [ on |-> TRUE, steps |-> << >> ]
    /\ stats = NoStats
    /\ user_input_mode = None
    /\ pack_name = None
    /\ stk_sent = NoSticker
    /\ pace_left = 0
    /\ cb = NoCallback
    /\ accepted_at = << >>
    /\ config = DefaultConfig
    /\ schedule = << >>
    /\ sched = SchedulerStart
    /\ queue = << >>
    /\ worker = WorkerStart
    /\ sent = << >>
    /\ handled = NotHandled

AlbumNext ==
    \/ IdleWake
    \/ Fetch
    \/ PauseCheck
    \/ Album
    \/ \E res \in SendResults, n \in RetryAfters : StickerFixedReturn(res, n)
    \/ SettleWake
    \/ Publish
    \/ \E res \in SendResults, n \in RetryAfters : ContentReturn(res, n)
    \/ SleepWake
    \/ Finally
    \/ Tick

AlbumSpec == AlbumInit /\ [][AlbumNext]_vars

----------------------------------------------------------------------------
(* The sticker step under every sticker configuration: a destination is     *)
(* configured, sticker_state, sticker_mode, the fixed sticker and the packs *)
(* are any the operator can have set, MaxItems media messages with any      *)
(* group markers wait in the normal lane, and the engine is suspended in    *)
(* msg_queue.get().                                                         *)

StickerPacks == { "pack", "pack2" }

StickerInit ==
    /\ \E state \in { "ON", "OFF" }, mode \in { "RANDOM", "SINGLE" },
          file_id \in { "" } \cup StickerInputs :
          settings = [ DefaultSettings EXCEPT !.target_channel = "-1001",
                                              !.sticker_state = state,
                                              !.sticker_mode = mode,
                                              !.single_sticker_id = file_id ]
    /\ sticker_sets \in SUBSET StickerPacks
    /\ vip_queue = << >>
    /\ \E groups \in [ 1..MaxItems -> AlbumGroups ] :
          msg_queue = [ k \in 1..MaxItems |-> AlbumMessage(k, groups[k]) ]
    /\ vip_unfinished = 0
    /\ msg_unfinished = MaxItems
    /\ pc = "idle"
    /\ message = NoMessage
    /\ is_vip = FALSE
    /\ last_processed_album_id = None
    /\ target_id = 0
    /\ sleep_left = 0
    /\ next_id = MaxItems + 1
    /\ deq_log = << >>
    /\ outcome = << >>
    /\ last_attempt = NoAttempt
    /\ sticker_retry_left = 0
    /\ content_retry_left = 0
    /\ paused_enq = {}
    /\ original_text = << >>
    /\ final_text = << >>
    /\ content_calls = << >>
    /\ pause_obs = NoPause
    /\ stk_log = [ on |-> TRUE, steps |-> << >> ]
    /\ stats = NoStats
    /\ user_input_mode = None
    /\ pack_name = None
    /\ stk_sent = NoSticker
    /\ pace_left = 0
    /\ cb = NoCallback
    /\ accepted_at = << >>
    /\ config = DefaultConfig
    /\ schedule = << >>
    /\ sched = SchedulerStart
    /\ queue = << >>
    /\ worker = WorkerStart
    /\ sent = << >>
    /\ handled = NotHandled

StickerNext ==
    \/ IdleWake
    \/ Fetch
    \/ PauseCheck
    \/ Album
    \/ \E res \in SendResults, n \in RetryAfters : StickerFixedReturn(res, n)
    \/ \E res \in { "documents", "empty", "error" } : StickerResolveReturn(res)
    \/ \E res \in SendResults, n \in RetryAfters : StickerSendReturn(res, n)
    \/ SettleWake
    \/ Publish
    \/ \E res \in SendResults, n \in RetryAfters : ContentReturn(res, n)
    \/ SleepWake
    \/ Finally
    \/ Tick

StickerSpec == StickerInit /\ [][StickerNext]_vars

----------------------------------------------------------------------------
(* Pacing while the operator sets the delay: a destination is configured,   *)
(* no sticker pack is, MaxItems media messages wait in the normal lane, the *)
(* engine is suspended in msg_queue.get(), and the operator opens the delay *)
(* dialog and answers it at any moment.                                     *)

PacingInit ==
    /\ settings = [ DefaultSettings EXCEPT !.target_channel = "-1001" ]
    /\ sticker_sets = {}
    /\ vip_queue = << >>
    /\ msg_queue = [ k \in 1..MaxItems |-> AlbumMessage(k, None) ]
    /\ vip_unfinished = 0
    /\ msg_unfinished = MaxItems
    /\ pc = "idle"
    /\ message = NoMessage
    /\ is_vip = FALSE
    /\ last_processed_album_id = None
    /\ target_id = 0
    /\ sleep_left = 0
    /\ next_id = MaxItems + 1
    /\ deq_log = << >>
    /\ outcome = << >>
    /\ last_attempt = NoAttempt
    /\ sticker_retry_left = 0
    /\ content_retry_left = 0
    /\ paused_enq = {}
    /\ original_text = << >>
    /\ final_text = << >>
    /\ content_calls = << >>
    /\ pause_obs = NoPause
    /\ stk_log = [ on |-> FALSE, steps |-> << >> ]
    /\ stats = NoStats
    /\ user_input_mode = None
    /\ pack_name = None
    /\ stk_sent = NoSticker
    /\ pace_left = 0
    /\ cb = NoCallback
    /\ accepted_at = << >>
    /\ config = DefaultConfig
    /\ schedule = << >>
    /\ sched = SchedulerStart
    /\ queue = << >>
    /\ worker = WorkerStart
    /\ sent = << >>
    /\ handled = NotHandled

PacingNext ==
    \/ IdleWake
    \/ Fetch
    \/ PauseCheck
    \/ Album
    \/ Publish
    \/ \E res \in SendResults, n \in RetryAfters : ContentReturn(res, n)
    \/ SleepWake
    \/ Finally
    \/ AskDelay
    \/ \E text \in DelayTexts : DelayInput(text)
    \/ Tick

PacingSpec == PacingInit /\ [][PacingNext]_vars

----------------------------------------------------------------------------
(* Intake alone: a destination is configured, the engine is suspended in    *)
(* msg_queue.get(), and an operator sends media and text messages.          *)

\* captions of the media messages sent
IntakeCaptions ==
    { << >>,
      << "h", "i" >>,
      << "v", "i", "p" >>,
      << "#", "v", "i" >>,
      << "#", "v", "i", "p" >>,
      << "#", "V", "i", "p" >>,
      << "#", "v", "i", "p", "s" >>,
      << "#", "U", "R", "G", "E", "N", "T" >>,
      << "g", "o", " ", "#", "u", "r", "g", "e", "n", "t", "!" >> }

\* texts of the text messages sent
IntakeTexts == { << "h", "i" >>, << "#", "v", "i", "p" >> }

IntakeInit ==
    /\ settings = [ DefaultSettings EXCEPT !.target_channel = "-1001" ]
    /\ sticker_sets = {}
    /\ vip_queue = << >>
    /\ msg_queue = << >>
    /\ vip_unfinished = 0
    /\ msg_unfinished = 0
    /\ pc = "idle"
    /\ message = NoMessage
    /\ is_vip = FALSE
    /\ last_processed_album_id = None
    /\ target_id = 0
    /\ sleep_left = 0
    /\ next_id = 1
    /\ deq_log = << >>
    /\ outcome = << >>
    /\ last_attempt = NoAttempt
    /\ sticker_retry_left = 0
    /\ content_retry_left = 0
    /\ paused_enq = {}
    /\ original_text = << >>
    /\ final_text = << >>
    /\ content_calls = << >>
    /\ pause_obs = NoPause
    /\ stk_log = [ on |-> FALSE, steps |-> << >> ]
    /\ stats = NoStats
    /\ user_input_mode = None
    /\ pack_name = None
    /\ stk_sent = NoSticker
    /\ pace_left = 0
    /\ cb = NoCallback
    /\ accepted_at = << >>
    /\ config = DefaultConfig
    /\ schedule = << >>
    /\ sched = SchedulerStart
    /\ queue = << >>
    /\ worker = WorkerStart
    /\ sent = << >>
    /\ handled = NotHandled

IntakeNext ==
    \/ \E c \in IntakeCaptions, g \in GroupInputs : Enqueue(c, g)
    \/ \E x \in IntakeTexts : EnqueueText(x)

IntakeSpec == IntakeInit /\ [][IntakeNext]_vars

----------------------------------------------------------------------------
(* Caption preparation: a destination is configured, footer, cleaner and    *)
(* mode are set one way or another, one message (a text message, or a media *)
(* message with or without caption) waits in the normal lane, and the       *)
(* engine is suspended in msg_queue.get().                                  *)

\* raw texts of the message
RawTexts ==
    { << "J", "o", "i", "n", " ", "u", "s" >>,
      << "C", "h", "e", "c", "k", " ", "h", "t", "t", "p", ":", "/", "/",
         "x", ".", "c", "o", " ", "a", "n", "d", " ", "@", "b", "o", "b" >>,
      << "h", "t", "t", "p", "s", ":", "/", "/", "x", ".", "c", "o" >>,
      << "s", "e", "e", " ", "t", "g", ":", "/", "/", "x", ".", "c", "o" >>,
      << "@", "a", "_", "1", "!", " ", "o", "k", " ", "@" >>,
      << " ", "h", "i", "\n" >> }

\* values of the footer setting
FooterInputs ==
    { NoFooter,
      << "J", "o", "i", "n", " ", "u", "s" >>,
      << "@", "c", "h" >> }

CaptionInit ==
    /\ \E f \in FooterInputs, c \in { "ON", "OFF" },
          m \in { "copy", "forward" } :
          settings = [ DefaultSettings EXCEPT !.target_channel = "-1001",
                                              !.footer = f,
                                              !.caption_cleaner = c,
                                              !.mode = m ]
    /\ sticker_sets = {}
    /\ vip_queue = << >>
    /\ \E r \in RawTexts \cup { << >> }, as_text \in BOOLEAN :
          /\ as_text => r # << >>
          /\ msg_queue =
                << [ id |-> 1,
                     text |-> IF as_text THEN r ELSE << >>,
                     caption |-> IF as_text THEN << >> ELSE r,
                     media_group_id |-> None ] >>
    /\ vip_unfinished = 0
    /\ msg_unfinished = 1
    /\ pc = "idle"
    /\ message = NoMessage
    /\ is_vip = FALSE
    /\ last_processed_album_id = None
    /\ target_id = 0
    /\ sleep_left = 0
    /\ next_id = 2
    /\ deq_log = << >>
    /\ outcome = << >>
    /\ last_attempt = NoAttempt
    /\ sticker_retry_left = 0
    /\ content_retry_left = 0
    /\ paused_enq = {}
    /\ original_text = << >>
    /\ final_text = << >>
    /\ content_calls = << >>
    /\ pause_obs = NoPause
    /\ stk_log = [ on |-> FALSE, steps |-> << >> ]
    /\ stats = NoStats
    /\ user_input_mode = None
    /\ pack_name = None
    /\ stk_sent = NoSticker
    /\ pace_left = 0
    /\ cb = NoCallback
    /\ accepted_at = << >>
    /\ config = DefaultConfig
    /\ schedule = << >>
    /\ sched = SchedulerStart
    /\ queue = << >>
    /\ worker = WorkerStart
    /\ sent = << >>
    /\ handled = NotHandled

CaptionNext ==
    \/ IdleWake
    \/ Fetch
    \/ PauseCheck
    \/ Album
    \/ Publish
    \/ \E res \in SendResults, n \in RetryAfters : ContentReturn(res, n)
    \/ SleepWake
    \/ Finally
    \/ Tick

CaptionSpec == CaptionInit /\ [][CaptionNext]_vars

----------------------------------------------------------------------------
(* Properties *)

LaneIds == Ids(vip_queue) \cup Ids(msg_queue)

InFlight ==
    IF message # NoMessage /\ message.id \notin DOMAIN outcome
      THEN { message.id }
      ELSE {}

Terminal == DOMAIN outcome

Enqueued == 1..(next_id - 1)

\* C1: every item taken from the normal lane was taken while the priority
\* lane was empty.
PriorityPrecedence ==
    \A k \in 1..Len(deq_log) :
        deq_log[k].lane = "msg" => deq_log[k].vip_len = 0

\* C2: a priority item that sits in its lane while the engine is idle is
\* eventually dequeued, without any further enqueue being needed.
IdleVipEventuallyDequeued ==
    \A i \in 1..MaxItems :
        (pc = "idle" /\ i \in Ids(vip_queue)) ~> (i \notin Ids(vip_queue))

\* C3: an item dropped for a missing destination is in no lane, nothing was
\* sent for it, and the engine goes on to the next dequeue instead of ending
\* in the cycle of that item.
NoDestinationDrop ==
    \A i \in DOMAIN outcome :
        outcome[i] = "dropped" =>
            /\ i \notin LaneIds
            /\ last_attempt.id # i
            /\ ~ (pc = "dead" /\ message.id = i)

\* C4: the engine loop never terminates, whatever the per-item outcomes.
EngineNeverTerminates == pc # "dead"

\* C5: every delivery attempt (sticker or content) is made while the pause
\* flag is clear.
PauseBlocksDelivery ==
    last_attempt.kind # "none" => last_attempt.paused # "1"

\* C6: no delivery attempt is made while the wait of an earlier rate-limit
\* signal (from a sticker send or a content send) is still running.
RateLimitHonoured ==
    last_attempt.kind # "none" =>
        /\ last_attempt.sticker_wait = 0
        /\ last_attempt.content_wait = 0

\* C7: every dequeue happens after the wait of the last rate-limited content
\* delivery has fully elapsed, and a rate-limited item is in neither lane.
RateLimitBackoff ==
    /\ \A k \in 1..Len(deq_log) : deq_log[k].content_wait = 0
    /\ \A i \in DOMAIN outcome : outcome[i] = "flood" => i \notin LaneIds

\* a dequeue that followed a rate-limited content delivery
RateLimitBackoffWitness ==
    /\ Len(deq_log) >= 2
    /\ deq_log[1].id \in DOMAIN outcome
    /\ outcome[deq_log[1].id] = "flood"

\* C8: items of one lane are dequeued in the order they were enqueued: the
\* dequeued ids of a lane increase, and every item still waiting in a lane was
\* enqueued after every item already dequeued from it.
FifoWithinLane ==
    /\ \A j, k \in 1..Len(deq_log) :
          (j < k /\ deq_log[j].lane = deq_log[k].lane)
              => deq_log[j].id < deq_log[k].id
    /\ \A k \in 1..Len(deq_log) :
          \A i \in (IF deq_log[k].lane = "vip" THEN Ids(vip_queue)
                                                ELSE Ids(msg_queue)) :
              deq_log[k].id < i

\* two items of the same lane have been dequeued
FifoWitness ==
    \E j, k \in 1..Len(deq_log) :
        j < k /\ deq_log[j].lane = deq_log[k].lane

\* every enqueued item is in exactly one of: a lane, in flight, terminal
ExactlyOnePlace ==
    /\ Enqueued = LaneIds \cup InFlight \cup Terminal
    /\ Ids(vip_queue) \cap Ids(msg_queue) = {}
    /\ LaneIds \cap InFlight = {}
    /\ LaneIds \cap Terminal = {}
    /\ Cardinality(Ids(vip_queue)) = Len(vip_queue)
    /\ Cardinality(Ids(msg_queue)) = Len(msg_queue)
    /\ \A j, k \in 1..Len(deq_log) : j # k => deq_log[j].id # deq_log[k].id

\* C9: every enqueued item is in exactly one of {its lane, in flight,
\* terminal}, no item is dequeued twice, and the items that have left the
\* lanes are exactly the ones the engine dequeued.
NoLossNoDuplicate ==
    /\ ExactlyOnePlace
    /\ Enqueued \ LaneIds = { deq_log[k].id : k \in 1..Len(deq_log) }

\* one item is terminal, another one is in flight
NoLossNoDuplicateWitness ==
    /\ InFlight # {}
    /\ Terminal # {}

\* C10: every item enqueued while the pause flag is set is still in its lane
\* for as long as the flag stays set.
DepthWhilePaused == paused_enq \subseteq LaneIds

\* C11: the content of an item is handed to forward/copy at most once: no
\* item is in a lane twice, none is dequeued twice, none has more than one
\* forward/copy call, and an item with a terminal outcome is in no lane.
DeliveredAtMostOnce ==
    /\ \A i \in DOMAIN content_calls : content_calls[i] <= 1
    /\ \A j, k \in 1..Len(deq_log) : j # k => deq_log[j].id # deq_log[k].id
    /\ Cardinality(LaneIds) = Len(vip_queue) + Len(msg_queue)
    /\ Terminal \cap LaneIds = {}

\* the engine went on to the next item after a rate-limited one, whose
\* content was handed over once
DeliveredAtMostOnceWitness ==
    /\ \E i \in DOMAIN outcome :
          outcome[i] = "flood" /\ content_calls[i] = 1 /\ message.id # i
    /\ \E i \in DOMAIN outcome : outcome[i] = "error"

\* C13: one item at a time, without preemption: whenever the engine dequeues,
\* the item it dequeued before has its terminal outcome, and a delivery
\* attempt (sticker or content) whose item has no outcome yet is an attempt
\* for the item the engine holds.
NoPreemption ==
    /\ \A k \in 1..Len(deq_log) : deq_log[k].prev_done
    /\ (last_attempt.kind # "none" /\ last_attempt.id \notin DOMAIN outcome)
          => last_attempt.id = message.id
    /\ Cardinality(InFlight) <= 1

\* the content of a normal item is being sent while a priority item that
\* arrived after it waits in its lane
NoPreemptionWitness ==
    /\ pc = "content_call"
    /\ ~ is_vip
    /\ \E i \in Ids(vip_queue) : i > message.id

\* the engine is inside the cycle of the message it holds: dequeued, and the
\* task_done() of the finally block still to come
InCycle == pc \notin { "fetch", "idle", "dead" }

\* C18: task_done() is called once per dequeued item, on the lane it came
\* from: the unfinished count of a lane is the number of items waiting in it,
\* plus one while the engine is in the cycle of an item taken from it, and is
\* never negative.
TaskDoneOncePerItem ==
    /\ vip_unfinished =
          Len(vip_queue) + (IF InCycle /\ is_vip THEN 1 ELSE 0)
    /\ msg_unfinished =
          Len(msg_queue) + (IF InCycle /\ ~ is_vip THEN 1 ELSE 0)
    /\ vip_unfinished >= 0
    /\ msg_unfinished >= 0

\* C19: from the poll that finds the pause flag set to the poll that finds it
\* clear, the engine dequeues nothing: it still holds the item it held at the
\* first of these polls, that item is in no lane, and it is the only
\* enqueued item that is neither in a lane nor terminal.
NoDequeueWhilePaused ==
    pause_obs.active =>
        /\ Len(deq_log) = pause_obs.deqs
        /\ message.id = pause_obs.id
        /\ message.id \notin LaneIds
        /\ Enqueued \ (LaneIds \cup Terminal) = { message.id }

\* the paused engine wakes from a poll sleep while an item waits in a lane
NoDequeueWhilePausedWitness ==
    /\ pause_obs.active
    /\ pc = "pause_chk"
    /\ settings.is_paused = "1"
    /\ LaneIds # {}

\* C20: a paused engine holding an item sleeps at most one poll interval at a
\* time, and once the pause flag is clear the held item reaches a terminal
\* outcome unless the flag is set again first.
ResumeLiveness ==
    /\ [](pc = "pause_sleep" => sleep_left <= PauseCheckInterval)
    /\ \A i \in 1..MaxItems :
          (pc = "pause_sleep" /\ message.id = i /\ settings.is_paused = "0")
              ~> (settings.is_paused = "1" \/ i \in DOMAIN outcome)

\* the engine sleeps in the pause poll, holding an item, after the flag was
\* cleared
ResumeLivenessWitness ==
    /\ pc = "pause_sleep"
    /\ sleep_left > 0
    /\ settings.is_paused = "0"
    /\ message.id \notin DOMAIN outcome

\* group markers and sticker attempts of the first n items that reached the
\* sticker step
StepGroups(n) == [ k \in 1..n |-> stk_log.steps[k].group ]

StepAttempts(n) == [ k \in 1..n |-> stk_log.steps[k].attempted ]

\* C12: with stickers enabled, a sticker is attempted for an item that reaches
\* the sticker step exactly when its group marker is None or differs from the
\* marker of the item that reached the step just before it; the markers
\* g1, g1, g2, None give the attempts yes, no, yes, yes.
AlbumSuppression ==
    /\ \A k \in 1..Len(stk_log.steps) :
          stk_log.steps[k].attempted <=>
              \/ stk_log.steps[k].group = None
              \/ k = 1
              \/ stk_log.steps[k].group # stk_log.steps[k - 1].group
    /\ (Len(stk_log.steps) >= 4 /\ StepGroups(4) = << "g1", "g1", "g2", None >>)
          => StepAttempts(4) = << TRUE, FALSE, TRUE, TRUE >>

\* the four items of the example have passed the sticker step
AlbumSuppressionWitness ==
    /\ Len(stk_log.steps) >= 4
    /\ StepGroups(4) = << "g1", "g1", "g2", None >>

\* the captions of IntakeCaptions that contain "#urgent" or "#vip" in any
\* letter case
PriorityCaptions ==
    { << "#", "v", "i", "p" >>,
      << "#", "V", "i", "p" >>,
      << "#", "v", "i", "p", "s" >>,
      << "#", "U", "R", "G", "E", "N", "T" >>,
      << "g", "o", " ", "#", "u", "r", "g", "e", "n", "t", "!" >> }

\* C14: every accepted message is, as soon as its handler has run, in
\* exactly one lane: the priority lane if its caption contains "#urgent" or
\* "#vip" in any letter case, the normal lane otherwise.
IntakeRouting ==
    /\ LaneIds = Enqueued
    /\ Ids(vip_queue) \cap Ids(msg_queue) = {}
    /\ Len(vip_queue) + Len(msg_queue) = next_id - 1
    /\ \A k \in 1..Len(vip_queue) :
          vip_queue[k].caption \in PriorityCaptions
    /\ \A k \in 1..Len(msg_queue) :
          msg_queue[k].caption \notin PriorityCaptions

\* a message tagged in capitals waits in the priority lane, an untagged one
\* in the normal lane
IntakeRoutingWitness ==
    /\ \E k \in 1..Len(vip_queue) :
          vip_queue[k].caption = << "#", "U", "R", "G", "E", "N", "T" >>
    /\ msg_queue # << >>

\* the caption has been prepared for the message the engine holds
Prepared == pc = "content_call"

\* the raw text of the held message
RawText == IF message.text # << >> THEN message.text ELSE message.caption

JoinUs == << "J", "o", "i", "n", " ", "u", "s" >>

\* C15: with a footer F configured, the final text is F alone when the text
\* (after the cleaning step) is empty, and otherwise that text, two line
\* feeds, then F, also when the text already equals F; with no footer the
\* final text is the text.
FooterMergeRule ==
    Prepared =>
        LET F == settings.footer
            T == original_text
        IN  /\ F = NoFooter => final_text = T
            /\ (F # NoFooter /\ T = << >>) => final_text = F
            /\ (F # NoFooter /\ T # << >>) =>
                  /\ Len(final_text) = Len(T) + 2 + Len(F)
                  /\ SubSeq(final_text, 1, Len(T)) = T
                  /\ final_text[Len(T) + 1] = "\n"
                  /\ final_text[Len(T) + 2] = "\n"
                  /\ SubSeq(final_text, Len(T) + 3, Len(final_text)) = F
            /\ (F = JoinUs /\ RawText = JoinUs) =>
                  final_text = << "J", "o", "i", "n", " ", "u", "s", "\n",
                                  "\n", "J", "o", "i", "n", " ", "u", "s" >>
            /\ (F = JoinUs /\ RawText = << >>) => final_text = JoinUs

\* the text "Join us" has been given the footer "Join us"
FooterMergeRuleWitness ==
    /\ Prepared
    /\ settings.footer = JoinUs
    /\ RawText = JoinUs
    /\ Len(final_text) = 16

\* C16: the final text never starts or ends with a whitespace character.
NoEdgeWhitespace ==
    (Prepared /\ final_text # << >>) =>
        /\ final_text[1] \notin WhiteSpace
        /\ final_text[Len(final_text)] \notin WhiteSpace

\* s holds a token scheme://...
HasUrlToken(s) ==
    \E i \in 1..Len(s) :
        /\ s[i] \in Letters
        /\ i + 3 <= Len(s)
        /\ SubSeq(s, i + 1, i + 3) = << ":", "/", "/" >>

\* s holds a mention @handle
HasHandle(s) ==
    \E i \in 1..Len(s) :
        s[i] = "@" /\ i + 1 <= Len(s) /\ s[i + 1] \in WordChars

\* C17: with the cleaner ON the text after the cleaning step holds no token
\* scheme://... and no @handle; with the cleaner OFF it is the raw text.
LinkStripping ==
    Prepared =>
        IF settings.caption_cleaner = "ON"
          THEN ~ HasUrlToken(original_text) /\ ~ HasHandle(original_text)
          ELSE original_text = RawText

----------------------------------------------------------------------------
(* The sticker step and the delivery that follows it                         *)

\* the engine is between the album logic and the content call of its item
BeforeContent ==
    pc \in { "stk_fixed_call", "stk_resolve_call", "stk_send_call",
             "stk_settle", "publish" }

\* the engine is inside send_smart_sticker, past its sticker_state test
InStickerHelper ==
    pc \in { "stk_fixed_call", "stk_resolve_call", "stk_send_call",
             "stk_settle" }

\* a sticker has been sent for the held message
StickerSent == stk_sent.id # 0 /\ stk_sent.id = message.id

\* C21: every item that reaches the sticker step gets its content delivery
\* attempted, whatever send_smart_sticker did (stickers off, no packs, a
\* resolution that fails or is empty, a sticker send that raises): an item of
\* the step log either has had its content call made or is the held item, still
\* on its way to the call; and the engine is in the settle sleep only when a
\* sticker was sent for the held item.
StickerNeverAborts ==
    /\ \A k \in 1..Len(stk_log.steps) :
          \/ stk_log.steps[k].id \in DOMAIN content_calls
          \/ stk_log.steps[k].id = message.id /\ BeforeContent
    /\ pc = "stk_settle" => StickerSent
    /\ (pc = "publish" /\ ~ StickerSent) => sleep_left = 0

\* the content call of the first item is in flight although its sticker send
\* was answered with a FloodWait that has not run out
StickerNeverAbortsWitness ==
    /\ pc = "content_call"
    /\ message.id = 1
    /\ sticker_retry_left > 0
    /\ last_attempt.kind = "content"

\* C22: after the album logic the cursor is the group marker of the item that
\* went through it last (None when it has none), whether a sticker was
\* attempted or not and whatever sticker_state is.
CursorFollowsItem ==
    Len(stk_log.steps) > 0 =>
        last_processed_album_id = stk_log.steps[Len(stk_log.steps)].group

\* with stickers OFF an album item set the cursor and the item without a marker
\* that followed it cleared it
CursorFollowsItemWitness ==
    /\ settings.sticker_state = "OFF"
    /\ Len(stk_log.steps) = 2
    /\ stk_log.steps[1].group = "g1"
    /\ stk_log.steps[2].group = None
    /\ last_processed_album_id = None

\* C26: the sticker handed to the Delivery API is the fixed reference exactly
\* when sticker_mode is SINGLE and a reference is stored; otherwise it is a
\* document of one of the configured packs, sent only after that pack resolved
\* to documents; with no pack configured, or a pack that resolves to nothing,
\* no sticker is sent.
StickerChoice ==
    /\ pc = "stk_fixed_call" =>
          /\ settings.sticker_mode = "SINGLE"
          /\ settings.single_sticker_id # ""
          /\ last_attempt.kind = "sticker"
          /\ last_attempt.ref = FixedRef(settings.single_sticker_id)
    /\ pc \in { "stk_resolve_call", "stk_send_call" } =>
          /\ ~ ( settings.sticker_mode = "SINGLE"
                 /\ settings.single_sticker_id # "" )
          /\ pack_name \in sticker_sets
    /\ pc = "stk_send_call" =>
          /\ stk_sent.resolved = "documents"
          /\ last_attempt.kind = "sticker"
          /\ last_attempt.ref.pack = pack_name
          /\ last_attempt.ref \in PackDocs(pack_name)
    /\ StickerSent =>
          \/ settings.sticker_mode = "SINGLE" /\ settings.single_sticker_id # ""
          \/ sticker_sets # {} /\ stk_sent.resolved = "documents"

\* in SINGLE mode without a stored reference, the second document of the
\* second pack is being sent
StickerChoiceWitness ==
    /\ pc = "stk_send_call"
    /\ settings.sticker_mode = "SINGLE"
    /\ settings.single_sticker_id = ""
    /\ last_attempt.ref = [ pack |-> "pack2", doc |-> "d2" ]

\* C27: with sticker_state OFF no sticker is resolved or sent, whatever the
\* mode, the fixed reference, the packs and the group markers are.
StickerOff ==
    settings.sticker_state = "OFF" =>
        /\ ~ InStickerHelper
        /\ stk_sent = NoSticker
        /\ last_attempt.kind # "sticker"
        /\ \A k \in 1..Len(stk_log.steps) : ~ stk_log.steps[k].attempted

\* with stickers OFF, a fixed sticker and both packs configured, two items
\* went through the sticker step
StickerOffWitness ==
    /\ settings.sticker_state = "OFF"
    /\ settings.sticker_mode = "SINGLE"
    /\ settings.single_sticker_id # ""
    /\ sticker_sets = StickerPacks
    /\ Len(stk_log.steps) = 2
    /\ pc = "content_call"

\* C28: when a sticker has been sent, fixed or random, the engine goes on to
\* the content of the item only after the settle interval of 1 time unit has
\* run out.
SettleDelay ==
    /\ (pc = "publish" /\ StickerSent) => stk_sent.left = 0
    /\ (pc = "content_call" /\ last_attempt.kind = "content") =>
          last_attempt.settle_wait = 0
    /\ (InStickerHelper /\ StickerSent) =>
          pc = "stk_settle" /\ sleep_left = stk_sent.left

\* a random sticker was sent and its settle interval is over: the content of
\* the item is next
SettleDelayWitness ==
    /\ pc = "publish"
    /\ StickerSent
    /\ stk_sent.resolved = "documents"
    /\ stk_sent.left = 0

----------------------------------------------------------------------------
(* The content call                                                          *)

CheckRaw ==
    << "C", "h", "e", "c", "k", " ", "h", "t", "t", "p", ":", "/", "/",
       "x", ".", "c", "o", " ", "a", "n", "d", " ", "@", "b", "o", "b" >>

----------------------------------------------------------------------------
(* Pacing, the counters and the delay dialog                                 *)

\* the messages whose content delivery succeeded
Published == { i \in DOMAIN outcome : outcome[i] = "published" }

\* the messages whose content delivery failed without a rate limit
Failed == { i \in DOMAIN outcome : outcome[i] = "error" }

\* C23: after a successful content delivery the engine sleeps for the delay
\* configured when the delivery returned: while that interval runs the engine
\* is in the pacing sleep and wakes no earlier than its end, so no dequeue
\* and no content call happen before it is over.
Pacing ==
    /\ pace_left > 0 => pc = "pace_sleep" /\ sleep_left = pace_left
    /\ \A k \in 1..Len(deq_log) : deq_log[k].pace_wait = 0
    /\ pc = "content_call" => pace_left = 0

\* the second item is dequeued after the first was delivered under a delay
\* the operator had set to 7
PacingWitness ==
    /\ Len(deq_log) = 2
    /\ outcome[1] = "published"
    /\ settings.delay = "7"
    /\ pc = "content_call"

\* C24: a content delivery that fails without a rate limit adds exactly one
\* to the error counter and nothing to the processed counter; the item is
\* not put back in a lane and gets no second content call; and the engine
\* goes on to the next dequeue.
ErrorDrop ==
    /\ [][ ( /\ pc = "content_call"
             /\ message.id \notin DOMAIN outcome
             /\ message.id \in DOMAIN outcome'
             /\ outcome'[message.id] = "error" ) =>
               stats' = [ stats EXCEPT !.errors = @ + 1 ] ]_vars
    /\ [] ( \A i \in Failed :
               /\ i \notin Ids(vip_queue) \cup Ids(msg_queue)
               /\ content_calls[i] = 1
               /\ ~ (pc = "dead" /\ message.id = i) )

\* the first item failed and was counted as one error, and the engine has
\* dequeued the second
ErrorDropWitness ==
    /\ 1 \in Failed
    /\ stats = [ processed |-> 0, errors |-> 1 ]
    /\ Len(deq_log) = 2
    /\ message.id = 2

AcceptedDelays ==
    ( << "5" >> :> 5 ) @@ ( << "7" >> :> 7 ) @@ ( << "0", "7" >> :> 7 )
    @@ ( << " ", "7", "\n" >> :> 7 )

\* C30: the stored delay is always an integer of at least 5; a SET_DELAY input
\* below 5 or not a number leaves the delay and the input mode as they were,
\* and an accepted input stores its value and ends the input mode.
DelayMinimum ==
    /\ [] ( IntOf(settings.delay) >= 5 )
    /\ [][ \A text \in DelayTexts :
             DelayInput(text) =>
               IF text \in DOMAIN AcceptedDelays
                 THEN /\ IntOf(settings'.delay) = AcceptedDelays[text]
                      /\ user_input_mode' = None
                 ELSE /\ settings'.delay = settings.delay
                      /\ user_input_mode' = "SET_DELAY" ]_vars

\* the delay was set to 7 and the operator, asked again, has not yet given an
\* input that was accepted
DelayMinimumWitness ==
    /\ settings.delay = "7"
    /\ user_input_mode = "SET_DELAY"

----------------------------------------------------------------------------
(* callback_router: the button presses that write the settings table and    *)
(* then call callback_router again with the same callback query             *)

\* nesting of callback_router calls after which Python raises RecursionError
MaxDepth == 3

\* cb.data of the buttons modelled
CallbackInputs == { "toggle_mode", "pause_bot", "resume_bot" }

\* new_mode = "forward" if curr == "copy" else "copy"
ToggleMode(curr) == IF curr = "copy" THEN "forward" ELSE "copy"

\* the db.set_setting call of the branch cb.data selects
CallbackWrite(data, st) ==
    CASE data = "pause_bot"   -> [ st EXCEPT !.is_paused = "1" ]
      [] data = "resume_bot"  -> [ st EXCEPT !.is_paused = "0" ]
      [] data = "toggle_mode" -> [ st EXCEPT !.mode = ToggleMode(st.mode) ]

CallbackFrame ==
    UNCHANGED << sticker_sets, vip_queue, msg_queue, vip_unfinished,
                 msg_unfinished, EngineLocals, next_id, deq_log, outcome,
                 last_attempt, sticker_retry_left, content_retry_left,
                 content_calls, pause_obs, stk_log, final_text, original_text,
                 stats, user_input_mode, pack_name, stk_sent, pace_left,
                 accepted_at, config, schedule, sched, queue, worker, sent,
                 handled >>

\* callback_router called by the dispatcher for a button pressed by the
\* owner: the branch writes its setting and suspends in cb.answer()
CallbackRouter(data) ==
    /\ Yielded
    /\ cb.at \in { "none", "returned" }
    /\ settings' = CallbackWrite(data, settings)
    /\ paused_enq' = IF settings'.is_paused = "1" THEN paused_enq ELSE {}
    /\ cb' = [ data |-> data, depth |-> 1, at |-> "answer", writes |-> 1,
               before |-> settings ]
    /\ CallbackFrame

\* cb.answer() of the branch returns or raises. When it returns, the branch
\* awaits callback_router(client, cb): cb.data is what it was, so the same
\* branch runs again, one level deeper, up to its own cb.answer(); at the
\* recursion limit the call raises instead. An exception is caught by the
\* except clause of the level it was raised in, which answers the query.
AnswerReturn(ok) ==
    /\ Yielded
    /\ cb.at = "answer"
    /\ IF ok /\ cb.depth < MaxDepth
         THEN /\ settings' = CallbackWrite(cb.data, settings)
              /\ paused_enq' = IF settings'.is_paused = "1" THEN paused_enq
                                                             ELSE {}
              /\ cb' = [ cb EXCEPT !.depth = @ + 1, !.writes = @ + 1 ]
         ELSE /\ cb' = [ cb EXCEPT !.at = "error_answer" ]
              /\ UNCHANGED << settings, paused_enq >>
    /\ CallbackFrame

\* cb.answer("Error!") of an except clause returns or raises. When it
\* returns, its level and every level above return; when it raises, the
\* except clause of the level above answers, and above the outermost level
\* the dispatcher logs the exception.
ErrorAnswerReturn(ok) ==
    /\ Yielded
    /\ cb.at = "error_answer"
    /\ cb' = IF ok \/ cb.depth = 1
               THEN [ cb EXCEPT !.at = "returned", !.depth = 0 ]
               ELSE [ cb EXCEPT !.depth = @ - 1 ]
    /\ UNCHANGED << settings, paused_enq >>
    /\ CallbackFrame

(* The owner pressing buttons: a destination is configured, the engine is   *)
(* suspended in msg_queue.get(), and media messages arrive meanwhile.       *)

CallbackInit == IntakeInit

CallbackNext ==
    \/ \E data \in CallbackInputs : CallbackRouter(data)
    \/ \E ok \in BOOLEAN : AnswerReturn(ok)
    \/ \E ok \in BOOLEAN : ErrorAnswerReturn(ok)
    \/ \E c \in CaptionInputs, g \in GroupInputs : Enqueue(c, g)

CallbackSpec == CallbackInit /\ [][CallbackNext]_vars

\* C31: when callback_router has returned from a toggle_mode press, the mode
\* was written once and is the opposite of what it was; when it has returned
\* from a pause_bot or resume_bot press, the pause flag was written once.
SingleWrite ==
    cb.at = "returned" =>
        /\ cb.writes = 1
        /\ cb.data = "toggle_mode" => settings.mode = ToggleMode(cb.before.mode)

----------------------------------------------------------------------------
(* The destination of a cycle while the operator changes it: stickers are   *)
(* on, a fixed sticker and a pack are configured, MaxItems media messages   *)
(* that belong to no album wait in the normal lane, the engine is suspended *)
(* in msg_queue.get(), and the operator sets target_channel at any moment.  *)

\* the channels the operator switches between
DestinationInputs == { "-1001", "-1002" }

DestinationInit ==
    /\ StickerInit
    /\ settings.sticker_state = "ON"
    /\ settings.single_sticker_id = "stk"
    /\ sticker_sets = { "pack" }
    /\ \A k \in 1..MaxItems : msg_queue[k].media_group_id = None

DestinationNext ==
    \/ StickerNext
    \/ \E t \in DestinationInputs : SetChannel(t)

DestinationSpec == DestinationInit /\ [][DestinationNext]_vars

\* C32: the engine's destination is assigned only by the read that follows
\* the pause check; every sticker call and every content call of the cycle
\* is addressed to it, so the sticker that was sent and the content go to
\* the same chat, whatever target_channel is by then.
SameDestination ==
    /\ [] ( pc \in { "stk_fixed_call", "stk_send_call", "content_call" }
              => last_attempt.chat_id = target_id )
    /\ [] ( ( pc \in { "stk_settle", "publish" } /\ stk_sent.id = message.id )
              => stk_sent.chat_id = target_id )
    /\ [][ target_id' # target_id => pc = "pause_chk" ]_vars

\* a sticker was sent, the operator has changed target_channel since the
\* cycle read it, and the content is about to be sent
SameDestinationWitness ==
    /\ pc = "publish"
    /\ stk_sent.id = message.id
    /\ stk_sent.chat_id = target_id
    /\ IntOf(settings.target_channel) # target_id

----------------------------------------------------------------------------
(* message_processor before ingestion: the destination gate and the         *)
(* configuration dialogs                                                    *)

\* the ingestion branch with no destination set: the message is answered
\* and the handler returns
Refuse(text, caption, group) ==
    /\ Yielded
    /\ ~ InInputMode(user_input_mode)
    /\ SetupRequired(settings.target_channel)
    /\ handled' = [ as |-> "refused", accept |-> FALSE ]
    /\ UNCHANGED << settings, sticker_sets, vip_queue, msg_queue,
                    vip_unfinished, msg_unfinished, EngineLocals, next_id,
                    deq_log, outcome, last_attempt, sticker_retry_left,
                    content_retry_left, paused_enq, content_calls, pause_obs,
                    stk_log, final_text, original_text, stats,
                    user_input_mode, pack_name, stk_sent, pace_left, cb,
                    accepted_at, config, schedule, sched, queue, worker,
                    sent >>

\* the dialogs callback_router opens (ask_channel, ask_delay, ask_footer,
\* ask_sticker, ask_single_sticker, ask_add_admin, ask_rem_admin)
InputModes ==
    { "SET_CHANNEL", "SET_DELAY", "SET_FOOTER", "ADD_STICKER",
      "SET_SINGLE_STICKER", "ADD_ADMIN", "REM_ADMIN" }

\* message.sticker of a message that is no sticker
NoStickerFile == [ file_id |-> "", set_name |-> "" ]

PackLink ==
    << "t", ".", "m", "e", "/", "a", "d", "d", "s", "t", "i", "c", "k", "e",
       "r", "s", "/", "p", "a", "c", "k" >>

\* what the operator sends while a dialog is open: a channel id, a sticker
\* pack link, a media message with a priority caption, a sticker
InputMessages ==
    { [ text |-> << "-", "1", "0", "0", "2" >>, caption |-> << >>,
        sticker |-> NoStickerFile ],
      [ text |-> PackLink, caption |-> << >>, sticker |-> NoStickerFile ],
      [ text |-> << >>, caption |-> << "#", "v", "i", "p" >>,
        sticker |-> NoStickerFile ],
      [ text |-> << >>, caption |-> << >>,
        sticker |-> [ file_id |-> "stk", set_name |-> "pack" ] ] }

\* a Python str for a sequence of characters
RECURSIVE Join(_)
Join(s) == IF s = << >> THEN "" ELSE Head(s) \o Join(Tail(s))

\* html.escape on one character
HtmlChar(c) ==
    CASE c = "&"  -> << "&", "a", "m", "p", ";" >>
      [] c = "<"  -> << "&", "l", "t", ";" >>
      [] c = ">"  -> << "&", "g", "t", ";" >>
      [] c = "\"" -> << "&", "q", "u", "o", "t", ";" >>
      [] c = "'"  -> << "&", "#", "x", "2", "7", ";" >>
      [] OTHER    -> << c >>

\* message.text.html of a text without entities
RECURSIVE Html(_)
Html(s) == IF s = << >> THEN << >> ELSE HtmlChar(Head(s)) \o Html(Tail(s))

\* s.split(sep)[-1]: what follows the last occurrence of sep in s
AfterLast(s, sep) ==
    LET at == { i \in 0..(Len(s) - Len(sep)) :
                  SubSeq(s, i + 1, i + Len(sep)) = sep }
        last == CHOOSE i \in at : \A j \in at : j <= i
    IN  IF at = {} THEN s ELSE DropFirst(s, last + Len(sep))

\* s.split(): the first whitespace-separated word, << >> where there is none
FirstWord(s) ==
    LET body == DropFirst(s, LeadingRun(s, WhiteSpace, TRUE))
    IN  SubSeq(body, 1, LeadingRun(body, WhiteSpace, FALSE))

AddStickers == << "a", "d", "d", "s", "t", "i", "c", "k", "e", "r", "s", "/" >>

\* the pack name the ADD_STICKER branch takes from a message; raised is
\* the IndexError of split()[0] on a link with nothing after it
PackNameOf(m) ==
    IF m.sticker # NoStickerFile
      THEN [ raised |-> FALSE, name |-> m.sticker.set_name ]
      ELSE IF m.text = << >>
             THEN [ raised |-> FALSE, name |-> "" ]
             ELSE IF Contains(m.text, AddStickers)
                    THEN LET word == FirstWord(AfterLast(m.text, AddStickers))
                         IN  [ raised |-> word = << >>, name |-> Join(word) ]
                    ELSE [ raised |-> FALSE, name |-> Join(Strip(m.text)) ]

\* what the branch of the open dialog does with a message: accept is FALSE
\* where the branch answers the input as invalid, or raises, and returns
\* before the cleanup
ConfigResult(mode, m, st, packs) ==
    LET parsed == IntOfText(m.text)
        kept   == [ accept |-> FALSE, settings |-> st, packs |-> packs ]
        done   == [ accept |-> TRUE, settings |-> st, packs |-> packs ]
    IN  CASE mode = "SET_CHANNEL" ->
               IF parsed.ok /\ parsed.val # 0
                 THEN [ done EXCEPT !.settings =
                          [ st EXCEPT !.target_channel = StrOf(parsed.val) ] ]
                 ELSE kept
          [] mode = "SET_DELAY" ->
               IF parsed.ok /\ DelayAccepted(parsed.val)
                 THEN [ done EXCEPT !.settings =
                          [ st EXCEPT !.delay = StrOf(parsed.val) ] ]
                 ELSE kept
          [] mode = "SET_FOOTER" ->
               [ done EXCEPT !.settings =
                   [ st EXCEPT !.footer = IF m.text # << >> THEN Html(m.text)
                                                            ELSE NoFooter ] ]
          [] mode = "ADD_STICKER" ->
               LET pack == PackNameOf(m)
               IN  IF ~ pack.raised /\ pack.name # ""
                     THEN [ done EXCEPT !.packs = packs \cup { pack.name } ]
                     ELSE kept
          [] mode = "SET_SINGLE_STICKER" ->
               IF m.sticker # NoStickerFile
                 THEN [ done EXCEPT !.settings =
                          [ st EXCEPT !.single_sticker_id = m.sticker.file_id,
                                      !.sticker_mode = "SINGLE" ] ]
                 ELSE kept
          [] mode \in { "ADD_ADMIN", "REM_ADMIN" } ->
               IF parsed.ok THEN done ELSE kept

\* callback_router, ask_*: the dialog is opened
AskInput(mode) ==
    /\ Yielded
    /\ user_input_mode' = mode
    /\ UNCHANGED << settings, sticker_sets, vip_queue, msg_queue,
                    vip_unfinished, msg_unfinished, EngineLocals, next_id,
                    deq_log, outcome, last_attempt, sticker_retry_left,
                    content_retry_left, paused_enq, content_calls, pause_obs,
                    stk_log, final_text, original_text, stats, pack_name,
                    stk_sent, pace_left, cb, accepted_at, config, schedule,
                    sched, queue, worker, sent, handled >>

\* callback_router, cancel_input: the dialog is closed
CancelInput ==
    /\ Yielded
    /\ user_input_mode' = None
    /\ UNCHANGED << settings, sticker_sets, vip_queue, msg_queue,
                    vip_unfinished, msg_unfinished, EngineLocals, next_id,
                    deq_log, outcome, last_attempt, sticker_retry_left,
                    content_retry_left, paused_enq, content_calls, pause_obs,
                    stk_log, final_text, original_text, stats, pack_name,
                    stk_sent, pace_left, cb, accepted_at, config, schedule,
                    sched, queue, worker, sent, handled >>

ConfigInput_Ingest(m) ==
    /\ Yielded
    /\ InInputMode(user_input_mode)
    /\ LET result == ConfigResult(user_input_mode, m, settings, sticker_sets)
       IN  /\ settings' = result.settings
           /\ sticker_sets' = result.packs
           /\ user_input_mode' = IF result.accept THEN None
                                                  ELSE user_input_mode
           /\ handled' = [ as |-> "input", accept |-> result.accept ]
    /\ IF next_id <= MaxItems /\ ~ SetupRequired(settings'.target_channel)
         THEN /\ msg_queue' =
                    QueuePut(msg_queue,
                             [ id |-> next_id, text |-> m.text,
                               caption |-> m.caption,
                               media_group_id |-> None ])
              /\ msg_unfinished' = msg_unfinished + 1
              /\ next_id' = next_id + 1
              /\ accepted_at' =
                    accepted_at @@ ( next_id :> settings'.target_channel )
         ELSE UNCHANGED << msg_queue, msg_unfinished, next_id, accepted_at >>
    /\ UNCHANGED << vip_queue, vip_unfinished,
                    EngineLocals, deq_log, outcome, last_attempt,
                    sticker_retry_left, content_retry_left, paused_enq,
                    content_calls, pause_obs, stk_log, final_text,
                    original_text, stats, pack_name, stk_sent, pace_left,
                    cb, config, schedule, sched, queue, worker, sent >>

\* message_processor, input mode: the message goes to the branch of the
\* open dialog; an accepted input is stored and the dialog closed, and in
\* every case the handler returns before the ingestion
ConfigInput(m) ==
    /\ Yielded
    /\ InInputMode(user_input_mode)
    /\ LET result == ConfigResult(user_input_mode, m, settings, sticker_sets)
       IN  /\ settings' = result.settings
           /\ sticker_sets' = result.packs
           /\ user_input_mode' = IF result.accept THEN None
                                                  ELSE user_input_mode
           /\ handled' = [ as |-> "input", accept |-> result.accept ]
    /\ UNCHANGED << vip_queue, msg_queue, vip_unfinished, msg_unfinished,
                    EngineLocals, next_id, deq_log, outcome, last_attempt,
                    sticker_retry_left, content_retry_left, paused_enq,
                    content_calls, pause_obs, stk_log, final_text,
                    original_text, stats, pack_name, stk_sent, pace_left,
                    cb, accepted_at, config, schedule, sched, queue, worker,
                    sent >>

(* The gate of message_processor: a fresh installation with no destination, *)
(* the engine waiting on the empty lanes, and the operator opening dialogs, *)
(* answering them, restoring the fresh database and sending messages of     *)
(* every kind at any moment.                                                *)

GateInit == Init

GateNext ==
    \/ Fetch
    \/ \E mode \in InputModes : AskInput(mode)
    \/ CancelInput
    \/ \E m \in InputMessages : ConfigInput(m)
    \/ \E m \in InputMessages : Refuse(m.text, m.caption, None)
    \/ \E c \in CaptionInputs, g \in GroupInputs : Enqueue(c, g)
    \/ Restore

GateSpec == GateInit /\ [][GateNext]_vars

\* C33: a message handled while target_channel is "0" leaves both lanes as
\* they were, and every item waiting in a lane was accepted while a
\* destination was set.
IntakeGate ==
    /\ [] ( \A id \in Ids(vip_queue) \cup Ids(msg_queue) :
              /\ id \in DOMAIN accepted_at
              /\ accepted_at[id] # "0" )
    /\ [][ settings.target_channel = "0"
             => UNCHANGED << vip_queue, msg_queue, next_id >> ]_vars

\* after a restore took the destination away a message was refused, while
\* one accepted earlier waits in the normal lane
IntakeGateWitness ==
    /\ handled.as = "refused"
    /\ settings.target_channel = "0"
    /\ Len(msg_queue) = 1

\* C34: while a configuration dialog is open, no step puts a message in a
\* lane: a message the operator sends is taken as the answer to the dialog,
\* accepted or not, and both lanes stay as they were.
InputConsumed ==
    /\ [][ ( user_input_mode # None )
             => UNCHANGED << vip_queue, msg_queue, next_id >> ]_vars
    /\ [][ \A m \in InputMessages :
             ConfigInput(m) => ( /\ handled'.as = "input"
                                 /\ UNCHANGED << vip_queue, msg_queue >> )
         ]_vars

\* a media message with a priority caption, or a sticker, was taken as an
\* invalid answer to the channel dialog, which stays open, while a message
\* accepted earlier waits in the normal lane
InputConsumedWitness ==
    /\ handled = [ as |-> "input", accept |-> FALSE ]
    /\ user_input_mode = "SET_CHANNEL"
    /\ Len(msg_queue) = 1
    /\ vip_queue = << >>

\* C35: a step that changes a lane appends the message being ingested to the
\* tail of the lane its caption selects and leaves the other lane alone, so
\* the messages of a lane are in the order their ingestion steps ran.
EnqueueOrder ==
    /\ [] ( \A j, k \in 1..Len(vip_queue) :
              j < k => vip_queue[j].id < vip_queue[k].id )
    /\ [] ( \A j, k \in 1..Len(msg_queue) :
              j < k => msg_queue[j].id < msg_queue[k].id )
    /\ [][ << vip_queue, msg_queue >>' # << vip_queue, msg_queue >> =>
             \/ /\ Len(vip_queue') = Len(vip_queue) + 1
                /\ vip_queue = SubSeq(vip_queue', 1, Len(vip_queue))
                /\ vip_queue'[Len(vip_queue')].id = next_id
                /\ IsVipCaption(vip_queue'[Len(vip_queue')].caption)
                /\ msg_queue' = msg_queue
             \/ /\ Len(msg_queue') = Len(msg_queue) + 1
                /\ msg_queue = SubSeq(msg_queue', 1, Len(msg_queue))
                /\ msg_queue'[Len(msg_queue')].id = next_id
                /\ ~ IsVipCaption(msg_queue'[Len(msg_queue')].caption)
                /\ vip_queue' = vip_queue
         ]_vars

\* two messages wait in the priority lane
EnqueueOrderWitness == Len(vip_queue) = 2

----------------------------------------------------------------------------
(* publish.py: TextProcessor, schedule_engine, queue_worker and the         *)
(* handlers that feed them                                                  *)

\* scheduled tasks per run
MaxTasks == 2

\* re.sub(r'@\S+', '', s)
RECURSIVE RemoveMentions(_)
RemoveMentions(s) ==
    IF s = << >>
      THEN << >>
      ELSE IF /\ Head(s) = "@"
              /\ LeadingRun(Tail(s), WhiteSpace, FALSE) >= 1
             THEN RemoveMentions(
                      DropFirst(s, 1 + LeadingRun(Tail(s), WhiteSpace, FALSE)))
             ELSE << Head(s) >> \o RemoveMentions(Tail(s))

\* a header or footer is configured
Configured(value) == value # << >> /\ value # NoFooter

\* TextProcessor.apply_formatting
ApplyFormatting(text, cfg) ==
    IF text = << >>
      THEN << >>
      ELSE LET cleaned  == IF cfg.clean_links = "1"
                             THEN RemoveMentions(RemoveLinks(text))
                             ELSE text
               headed   == IF Configured(cfg.header)
                             THEN cfg.header \o << "\n", "\n" >> \o cleaned
                             ELSE cleaned
               footed   == IF Configured(cfg.footer)
                             THEN headed \o << "\n", "\n" >> \o cfg.footer
                             ELSE headed
           IN  Strip(footed)

\* a or b of Python, for texts (None and "" are both << >>)
OrText(a, b) == IF a # << >> THEN a ELSE b

MarkScheduleDone_Skip(sch, task_id, status) == sch

\* Database.mark_schedule_done
MarkScheduleDone(sch, task_id, status) ==
    [ sch EXCEPT ![task_id].status = status ]

\* Database.get_pending_schedules: the ids of the rows that are pending and
\* due, in table order
RECURSIVE PendingFrom(_, _)
PendingFrom(sch, k) ==
    IF k > Len(sch)
      THEN << >>
      ELSE ( IF sch[k].status = "pending" /\ sch[k].due THEN << k >>
                                                        ELSE << >> )
           \o PendingFrom(sch, k + 1)

GetPendingSchedules(sch) == PendingFrom(sch, 1)

\* the media types schedule_engine has a send call for
SendTypes == { "text", "photo", "video", "sticker" }

\* a send call made by schedule_engine or queue_worker, as it is logged
SendCall(by, id) ==
    [ by |-> by, id |-> id, paused |-> config.is_paused, res |-> "calling" ]

\* the log once the latest call of a task has returned
RECURSIVE Settle(_, _, _)
Settle(log, by, res) ==
    IF log = << >>
      THEN << >>
      ELSE IF log[Len(log)].by = by
             THEN [ log EXCEPT ![Len(log)].res = res ]
             ELSE Append(Settle(SubSeq(log, 1, Len(log) - 1), by, res),
                         log[Len(log)])

\* the bot of publish_bot.py is another program: its state is not touched
PublishFrame ==
    UNCHANGED << settings, sticker_sets, vip_queue, msg_queue, vip_unfinished,
                 msg_unfinished, EngineLocals, next_id, deq_log, outcome,
                 last_attempt, sticker_retry_left, content_retry_left,
                 paused_enq, original_text, final_text, content_calls,
                 pause_obs, stk_log, stats, user_input_mode, pack_name,
                 stk_sent, pace_left, cb, accepted_at, handled >>

\* schedule_engine, the for loop from the task at the head of pend up to
\* its next await: with no target every task left is marked failed; a task
\* of a type with a send call suspends the engine in that call
RECURSIVE SchedLoop(_, _, _)
SchedLoop(sch, pend, picked) ==
    IF pend = << >>
      THEN [ schedule |-> sch, call |-> FALSE,
             sched |-> [ at |-> "sleep", pending |-> << >>, task |-> 0,
                         picked |-> picked ] ]
      ELSE IF IntOf(config.target_channel) = 0
             THEN SchedLoop(MarkScheduleDone(sch, Head(pend), "failed"),
                            Tail(pend), picked)
             ELSE IF sch[Head(pend)].mtype \in SendTypes
                    THEN [ schedule |-> sch, call |-> TRUE,
                           sched |-> [ at |-> "send", pending |-> Tail(pend),
                                       task |-> Head(pend),
                                       picked |-> picked ] ]
                    ELSE [ schedule |->
                             MarkScheduleDone(sch, Head(pend), "success"),
                           call |-> FALSE,
                           sched |-> [ at |-> "notify",
                                       pending |-> Tail(pend),
                                       task |-> Head(pend),
                                       picked |-> picked ] ]

\* the engine moves on as SchedLoop says; log is the send log so far
SchedContinue(next, log) ==
    /\ schedule' = next.schedule
    /\ sched' = next.sched
    /\ sent' = IF next.call
                 THEN Append(log, SendCall("schedule", next.sched.task))
                 ELSE log

\* schedule_engine starts a pass: at start, or when asyncio.sleep(10) is over
SchedPoll ==
    /\ sched.at \in { "poll", "sleep" }
    /\ LET pend == GetPendingSchedules(schedule)
       IN  SchedContinue(
               SchedLoop(schedule, pend, { pend[i] : i \in 1..Len(pend) }),
               sent)
    /\ UNCHANGED << config, queue, worker >>
    /\ PublishFrame

\* the send call of a task returns or raises
SchedSendReturn(ok) ==
    /\ sched.at = "send"
    /\ IF ok
         THEN /\ schedule' = MarkScheduleDone(schedule, sched.task, "success")
              /\ sched' = [ sched EXCEPT !.at = "notify" ]
              /\ sent' = Settle(sent, "schedule", "ok")
         ELSE SchedContinue(
                  SchedLoop(MarkScheduleDone(schedule, sched.task, "error"),
                            sched.pending, sched.picked),
                  Settle(sent, "schedule", "error"))
    /\ UNCHANGED << config, queue, worker >>
    /\ PublishFrame

\* the report to the owner returns or raises
SchedNotifyReturn(ok) ==
    /\ sched.at = "notify"
    /\ SchedContinue(
           SchedLoop(IF ok THEN schedule
                           ELSE MarkScheduleDone(schedule, sched.task,
                                                 "error"),
                     sched.pending, sched.picked),
           sent)
    /\ UNCHANGED << config, queue, worker >>
    /\ PublishFrame

\* queue_worker from the end of the pause loop to its next await; no sticker
\* pack is configured
WorkerProceed(m, gets) ==
    IF IntOf(config.target_channel) = 0
      THEN /\ worker' = [ WorkerStart EXCEPT !.gets = gets ]
           /\ UNCHANGED sent
      ELSE /\ worker' =
                 [ at |-> "content_call", message |-> m,
                   target |-> IntOf(config.target_channel),
                   final_text |->
                       IF config.mode = "forward"
                         THEN << >>
                         ELSE ApplyFormatting(OrText(m.text, m.caption),
                                              config),
                   gets |-> gets ]
           /\ sent' = Append(sent, SendCall("queue", m.id))

\* state.queue.get() returns, then the pause check
WorkerGet ==
    /\ worker.at = "get"
    /\ queue # << >>
    /\ queue' = Tail(queue)
    /\ IF config.is_paused = "1"
         THEN /\ worker' = [ worker EXCEPT !.at = "pause_sleep",
                                           !.message = Head(queue),
                                           !.gets = @ + 1 ]
              /\ UNCHANGED sent
         ELSE WorkerProceed(Head(queue), worker.gets + 1)
    /\ UNCHANGED << config, schedule, sched >>
    /\ PublishFrame

\* asyncio.sleep(5) of the pause loop is over
WorkerPauseWake ==
    /\ worker.at = "pause_sleep"
    /\ IF config.is_paused = "1"
         THEN UNCHANGED << worker, sent >>
         ELSE WorkerProceed(worker.message, worker.gets)
    /\ UNCHANGED << config, schedule, sched, queue >>
    /\ PublishFrame

\* forward / send_message / copy returns or raises
WorkerSendReturn(res) ==
    /\ worker.at = "content_call"
    /\ sent' = Settle(sent, "queue", res)
    /\ worker' = CASE res = "ok"    -> [ worker EXCEPT !.at = "delay_sleep" ]
                   [] res = "flood" -> [ worker EXCEPT !.at = "flood_sleep" ]
                   [] res = "error" -> [ WorkerStart EXCEPT
                                           !.gets = worker.gets ]
    /\ UNCHANGED << config, schedule, sched, queue >>
    /\ PublishFrame

\* the delay, or the FloodWait sleep, is over; the finally clause runs
WorkerWake ==
    /\ worker.at \in { "delay_sleep", "flood_sleep" }
    /\ worker' = [ WorkerStart EXCEPT !.gets = worker.gets ]
    /\ UNCHANGED << config, schedule, sched, queue, sent >>
    /\ PublishFrame

\* cb_handler, toggle_pause
TogglePause ==
    /\ config' = [ config EXCEPT !.is_paused = IF @ = "1" THEN "0" ELSE "1" ]
    /\ UNCHANGED << schedule, sched, queue, worker, sent >>
    /\ PublishFrame

\* input_processor, CHANNEL / HEADER / FOOTER input, and cb_handler,
\* rem_header / rem_footer: one row of the config table is written
SetConfig(new) ==
    /\ config' = new
    /\ UNCHANGED << schedule, sched, queue, worker, sent >>
    /\ PublishFrame

\* what the owner sets the destination to
PublishChannels == { "0", "-1001" }

\* what the owner sets header and footer to
BrandTexts == { NoFooter, << "F" >> }

ConfigWrites ==
    { [ config EXCEPT !.target_channel = t ] : t \in PublishChannels }
    \cup { [ config EXCEPT !.footer = f ] : f \in BrandTexts }
    \cup { [ config EXCEPT !.header = h ] : h \in BrandTexts }

\* messages sent to the bot: a text, a captioned media message, a media
\* message without caption
PublishInputs ==
    { [ text |-> << "h", "i" >>, caption |-> << >> ],
      [ text |-> << >>, caption |-> << "h", "i" >> ],
      [ text |-> << >>, caption |-> << >> ] }

\* input_processor, queue ingestion
QueueIntake(m) ==
    /\ config.target_channel # "0"
    /\ Len(queue) + worker.gets < MaxItems
    /\ queue' = Append(queue, [ id |-> Len(queue) + worker.gets + 1,
                                text |-> m.text, caption |-> m.caption,
                                media_group_id |-> None ])
    /\ UNCHANGED << config, schedule, sched, worker, sent >>
    /\ PublishFrame

\* schedule_command: the replied-to message is stored as a pending task
\* that is due later
ScheduleCommand(mtype, m) ==
    /\ Len(schedule) < MaxTasks
    /\ schedule' = Append(schedule, [ status |-> "pending", mtype |-> mtype,
                                      caption |-> m.caption,
                                      text |-> OrText(m.text, m.caption),
                                      due |-> FALSE ])
    /\ UNCHANGED << config, sched, queue, worker, sent >>
    /\ PublishFrame

\* time passes: run_at of a task is reached
Due(task_id) ==
    /\ task_id \in 1..Len(schedule)
    /\ ~ schedule[task_id].due
    /\ schedule' = [ schedule EXCEPT ![task_id].due = TRUE ]
    /\ UNCHANGED << config, sched, queue, worker, sent >>
    /\ PublishFrame

(* queue_worker on a fresh database: the owner configures destination and  *)
(* branding, pauses and resumes, and sends content at any moment.           *)

WorkerInit == Init

WorkerNext ==
    \/ WorkerGet
    \/ WorkerPauseWake
    \/ \E res \in { "ok", "flood", "error" } : WorkerSendReturn(res)
    \/ WorkerWake
    \/ TogglePause
    \/ \E new \in ConfigWrites : SetConfig(new)
    \/ \E m \in PublishInputs : QueueIntake(m)

WorkerSpec == WorkerInit /\ [][WorkerNext]_vars

(* schedule_engine on a fresh database: the owner sets and unsets the       *)
(* destination, pauses and resumes, and schedules messages, which become    *)
(* due as time passes.                                                      *)

ScheduleInit == Init

ScheduleNext ==
    \/ SchedPoll
    \/ \E ok \in BOOLEAN : SchedSendReturn(ok)
    \/ \E ok \in BOOLEAN : SchedNotifyReturn(ok)
    \/ TogglePause
    \/ \E t \in PublishChannels :
          SetConfig([ config EXCEPT !.target_channel = t ])
    \/ \E m \in PublishInputs : ScheduleCommand(IF m.text # << >> THEN "text"
                                                                  ELSE "photo",
                                                m)
    \/ \E k \in 1..MaxTasks : Due(k)

ScheduleSpec == ScheduleInit /\ [][ScheduleNext]_vars

\* the text queue_worker formats: message.text or message.caption or ""
WorkerRawText(m) == OrText(m.text, m.caption)

\* C36: when queue_worker formats an empty text while a footer is configured,
\* the text it sends is the footer alone.
EmptyTextFooter ==
    [][ ( /\ worker.at # "content_call"
          /\ worker'.at = "content_call"
          /\ WorkerRawText(worker'.message) = << >>
          /\ Configured(config.footer) )
        => worker'.final_text = config.footer ]_vars

\* the send calls made while is_paused was "1"
PausedSends == { i \in 1..Len(sent) : sent[i].paused = "1" }

\* C37: no send call is made while is_paused is "1".
NoSendWhilePaused == PausedSends = {}

\* the send calls schedule_engine made for a task
TaskSends(task_id) ==
    { i \in 1..Len(sent) : sent[i].by = "schedule" /\ sent[i].id = task_id }

\* C38: schedule_engine makes at most one send call per task, and only for a
\* pending one; when a pass is over, every task it picked up is success,
\* failed (no target, nothing sent) or error, and a task that has left
\* pending never returns to it.
SentAtMostOnce ==
    /\ [] ( \A k \in 1..Len(schedule) : Cardinality(TaskSends(k)) <= 1 )
    /\ [] ( sched.at = "sleep" =>
              \A k \in sched.picked :
                  schedule[k].status \in { "success", "failed", "error" } )
    /\ [] ( \A k \in 1..Len(schedule) :
              /\ schedule[k].status = "failed" => TaskSends(k) = {}
              /\ schedule[k].status = "success" =>
                    \E i \in TaskSends(k) : sent[i].res = "ok" )
    /\ [][ Len(sent') > Len(sent) =>
             schedule[sent'[Len(sent')].id].status = "pending" ]_vars
    /\ [][ \A k \in 1..Len(schedule) :
             schedule[k].status # "pending" =>
                 schedule'[k].status # "pending" ]_vars

\* a pass is over in which one task was sent and the other, picked up after
\* the owner had unset the destination, failed
SentAtMostOnceWitness ==
    /\ sched.at = "sleep"
    /\ Len(schedule) = 2
    /\ schedule[1].status \in { "success", "error" }
    /\ TaskSends(1) # {}
    /\ schedule[2].status = "failed"

====
